---- MODULE Spec2Model ----
(***************************************************************************)
(* Model of frigg's usage analysis and pruning pipeline:                   *)
(*   grafana.DashboardPruner (Start / tick / prune),                       *)
(*   grafana.Client (UsedDashboards, AllDashboards, DeleteDashboard),      *)
(*   github.Client (BackUpDashboard),                                      *)
(*   loki.Client (QueryRange, queryRangePage).                             *)
(* The three remote services (Grafana, Loki, GitHub) are the environment:  *)
(* every remote call is one step whose answer is drawn from the answers    *)
(* the service can give in its current state.                              *)
(* Spec is the pruner with the usage analysis answered by the environment; *)
(* ReaderSpec and UsageSpec run QueryRange and UsedDashboards against a    *)
(* log store with given contents.                                          *)
(***************************************************************************)
EXTENDS Integers, Sequences, FiniteSets, TLC

\* ------------------------------------------------------------------ bounds
MaxDashboards == 2      \* dashboards of the pruned namespace held by the service
MaxLogs == 2            \* log entries the log store returns for the lookback period
MaxRuns == 2            \* prune runs (the immediate one and later ticks)
MaxPage == 2            \* largest page the dashboard service cuts a listing into
MaxEntries == 3         \* log entries held by the log store, and its time span
MaxLines == 3           \* fetched log lines handed to the tally
MaxListed == 3          \* dashboards of the namespace when the listing is read on its own
MaxBackups == 2         \* calls of BackUpDashboard when the backup is exercised on its own

\* ------------------------------------------------------- program constants
DefaultLowerThreshold == 10
pageSize == 500
expectedPartCount == 8

Nil == "nil"

\* ------------------------------------------------------------ configuration
Namespace == "ns1"                  \* DashboardPruner.namespace
OtherNamespace == "ns2"
IgnoredUsers == <<"bot", "">>       \* DashboardPruner.ignoredUsers
Labels == {"app"}                   \* DashboardPruner.labels (keys; non-empty)
DashNames == <<"d1", "d2", "d3", "d4">>

SkipTagChoices == {<<>>, <<"keep", "tmp">>}
DashTagChoices == {<<"Keep">>, <<"team", "tmp">>}
ManagedByChoices == {<<>>, <<"terraform">>}     \* <<>> is the nil pointer
LowerThresholdChoices == {0, MaxLogs}

Range(s) == {s[k] : k \in DOMAIN s}

\* ------------------------------------------------------------ grafana.Client
\* Dashboard value as built by dashboardsPage from one item of the listing.
Dashboard(name, namespace, tags, managedBy) ==
    [Name |-> name, Namespace |-> namespace, Tags |-> tags,
     ManagedBy |-> managedBy, Spec |-> <<"spec", namespace, name>>]

Key(d) == [name |-> d.Name, namespace |-> d.Namespace]

ReadsKey(r) == [name |-> r.name, namespace |-> r.namespace]

\* Provisioned testing the marker for one manager instead of for presence.
Provisioned_OneManager(d) == d.ManagedBy = <<"plugin">>


Provisioned(d) == d.ManagedBy # <<>>

\* HasTag comparing the tags without regard to case.
FoldCase(t) == IF t = "Keep" THEN "keep" ELSE t
HasTag_FoldCase(d, tag) == \E k \in 1..Len(d.Tags) : FoldCase(d.Tags[k]) = FoldCase(tag)


HasTag(d, tag) == \E k \in 1..Len(d.Tags) : d.Tags[k] = tag

\* Paths are kept as the result of strings.Split(path, "/").
ApiPath(namespace, name) ==
    <<"", "apis", "dashboard.grafana.app", "v1beta1", "namespaces", namespace, "dashboards", name>>

DtoPath(namespace, name) == Append(ApiPath(namespace, name), "dto")

TrimSuffixDto(path) ==
    IF Len(path) >= 2 /\ path[Len(path)] = "dto" THEN SubSeq(path, 1, Len(path) - 1) ELSE path

NoKey == [name |-> "", namespace |-> ""]

\* extractPathVariables answering the empty key, without error, for a path
\* that has another number of parts.
extractPathVariables_Lenient(path) ==
    LET pathParts == TrimSuffixDto(path) IN
    IF Len(pathParts) # expectedPartCount THEN [err |-> Nil, key |-> NoKey]
    ELSE IF pathParts[3] # "dashboard.grafana.app" THEN [err |-> "third part", key |-> NoKey]
    ELSE IF pathParts[5] # "namespaces" THEN [err |-> "fifth part", key |-> NoKey]
    ELSE IF pathParts[7] # "dashboards" THEN [err |-> "seventh part", key |-> NoKey]
    ELSE [err |-> Nil, key |-> [name |-> pathParts[8], namespace |-> pathParts[6]]]

extractPathVariables(path) ==
    LET pathParts == TrimSuffixDto(path) IN
    IF Len(pathParts) # expectedPartCount THEN [err |-> "part count", key |-> NoKey]
    ELSE IF pathParts[3] # "dashboard.grafana.app" THEN [err |-> "third part", key |-> NoKey]
    ELSE IF pathParts[5] # "namespaces" THEN [err |-> "fifth part", key |-> NoKey]
    ELSE IF pathParts[7] # "dashboards" THEN [err |-> "seventh part", key |-> NoKey]
    ELSE [err |-> Nil, key |-> [name |-> pathParts[8], namespace |-> pathParts[6]]]

\* stream["uname"] of a Go map: the empty string when the label is absent.
Uname(stream) == IF "uname" \in DOMAIN stream THEN stream.uname ELSE ""

\* Ignored without the test for the empty user name.
Ignored_EmptyToo(user, ignoredUsers) == user \in Range(ignoredUsers)


Ignored(user, ignoredUsers) == user # "" /\ user \in Range(ignoredUsers)

\* Ordering of the strings that occur as names and namespaces.
StrOrder == <<"", "d1", "d2", "d3", "d4", "dto", "ns1", "ns2">>
StrRank(s) == CHOOSE k \in 1..Len(StrOrder) : StrOrder[k] = s
StrLess(a, b) == StrRank(a) < StrRank(b)

\* ReadsLess comparing the namespaces before the names.
ReadsLess_NamespaceFirst(a, b) ==
    IF a.namespace = b.namespace THEN StrLess(a.name, b.name)
    ELSE StrLess(a.namespace, b.namespace)

ReadsLess(a, b) ==
    IF a.name = b.name THEN StrLess(a.namespace, b.namespace) ELSE StrLess(a.name, b.name)

RECURSIVE SortReads(_)
SortReads(S) ==
    IF S = {} THEN <<>>
    ELSE LET m == CHOOSE x \in S : \A y \in S \ {x} : ReadsLess(x, y)
         IN <<m>> \o SortReads(S \ {m})

\* processLoop counting the read before it looks at the ignored users.
RECURSIVE processLoop_CountsFirst(_, _, _, _, _)
processLoop_CountsFirst(logs, ignoredUsers, k, readCounts, readsByKey) ==
    IF k > Len(logs)
    THEN [err |-> Nil,
          result |-> SortReads({[name |-> key.name, namespace |-> key.namespace,
                                 reads |-> readCounts[key],
                                 users |-> Cardinality(readsByKey[key])] : key \in DOMAIN readsByKey})]
    ELSE LET stream == logs[k] IN
         IF "path" \notin DOMAIN stream THEN [err |-> "could not find path", result |-> <<>>]
         ELSE LET ex == extractPathVariables(stream.path)
                  user == Uname(stream)
                  key == ex.key
                  old == IF key \in DOMAIN readCounts THEN readCounts[key] ELSE 0
                  counted == [x \in DOMAIN readCounts \cup {key} |->
                                 IF x = key THEN old + 1 ELSE readCounts[x]]
              IN IF ex.err # Nil THEN [err |-> "extracting variables from path", result |-> <<>>]
                 ELSE IF Ignored(user, ignoredUsers)
                      THEN processLoop_CountsFirst(logs, ignoredUsers, k + 1, counted, readsByKey)
                 ELSE LET seen == IF key \in DOMAIN readsByKey THEN readsByKey[key] ELSE {}
                          keys == DOMAIN readsByKey \cup {key}
                      IN processLoop_CountsFirst(logs, ignoredUsers, k + 1, counted,
                            [x \in keys |-> IF x = key
                                            THEN (IF user # "" THEN seen \cup {user} ELSE seen)
                                            ELSE readsByKey[x]])

\* processLoop noting the user of a line before it looks at the ignored users.
RECURSIVE processLoop_TracksFirst(_, _, _, _, _)
processLoop_TracksFirst(logs, ignoredUsers, k, readCounts, readsByKey) ==
    IF k > Len(logs)
    THEN [err |-> Nil,
          result |-> SortReads({[name |-> key.name, namespace |-> key.namespace,
                                 reads |-> IF key \in DOMAIN readCounts
                                           THEN readCounts[key] ELSE 0,
                                 users |-> Cardinality(readsByKey[key])] : key \in DOMAIN readsByKey})]
    ELSE LET stream == logs[k] IN
         IF "path" \notin DOMAIN stream THEN [err |-> "could not find path", result |-> <<>>]
         ELSE LET ex == extractPathVariables(stream.path)
                  user == Uname(stream)
                  key == ex.key
                  seen == IF key \in DOMAIN readsByKey THEN readsByKey[key] ELSE {}
                  tracked == [x \in DOMAIN readsByKey \cup {key} |->
                                 IF x = key
                                 THEN (IF user # "" THEN seen \cup {user} ELSE seen)
                                 ELSE readsByKey[x]]
              IN IF ex.err # Nil THEN [err |-> "extracting variables from path", result |-> <<>>]
                 ELSE IF Ignored(user, ignoredUsers)
                      THEN processLoop_TracksFirst(logs, ignoredUsers, k + 1, readCounts, tracked)
                 ELSE LET old == IF key \in DOMAIN readCounts THEN readCounts[key] ELSE 0
                      IN processLoop_TracksFirst(logs, ignoredUsers, k + 1,
                            [x \in DOMAIN readCounts \cup {key} |->
                                IF x = key THEN old + 1 ELSE readCounts[x]],
                            tracked)

\* The loop of processLogs from entry k on; readCounts maps a key to its read
\* count, readsByKey maps it to the set of user names seen for it.
RECURSIVE processLoop(_, _, _, _, _)
processLoop(logs, ignoredUsers, k, readCounts, readsByKey) ==
    IF k > Len(logs)
    THEN [err |-> Nil,
          result |-> SortReads({[name |-> key.name, namespace |-> key.namespace,
                                 reads |-> readCounts[key],
                                 users |-> Cardinality(readsByKey[key])] : key \in DOMAIN readsByKey})]
    ELSE LET stream == logs[k] IN
         IF "path" \notin DOMAIN stream THEN [err |-> "could not find path", result |-> <<>>]
         ELSE LET ex == extractPathVariables(stream.path)
                  user == Uname(stream)
                  key == ex.key
              IN IF ex.err # Nil THEN [err |-> "extracting variables from path", result |-> <<>>]
                 ELSE IF Ignored(user, ignoredUsers)
                      THEN processLoop(logs, ignoredUsers, k + 1, readCounts, readsByKey)
                 ELSE LET old == IF key \in DOMAIN readCounts THEN readCounts[key] ELSE 0
                          seen == IF key \in DOMAIN readsByKey THEN readsByKey[key] ELSE {}
                          keys == DOMAIN readsByKey \cup {key}
                      IN processLoop(logs, ignoredUsers, k + 1,
                            [x \in keys |-> IF x = key THEN old + 1 ELSE readCounts[x]],
                            [x \in keys |-> IF x = key
                                            THEN (IF user # "" THEN seen \cup {user} ELSE seen)
                                            ELSE readsByKey[x]])

processLogs(logs, ignoredUsers) ==
    processLoop(logs, ignoredUsers, 1, [x \in {} |-> 0], [x \in {} |-> {}])

RECURSIVE Flatten(_)
Flatten(ss) == IF ss = <<>> THEN <<>> ELSE Head(ss) \o Flatten(Tail(ss))

\* queryLogs: the concatenation of the per-window QueryRange results.
queryLogs(windows) == Flatten(windows)

\* The lower threshold without its default.
EffectiveThreshold_NoDefault(threshold) == threshold


EffectiveThreshold(threshold) ==
    IF threshold = 0 THEN DefaultLowerThreshold ELSE threshold

BelowThreshold(n, threshold) == n < EffectiveThreshold(threshold)

\* UsedDashboards on the results the log store gave for the windows.
UsedDashboards(labels, windows, ignoredUsers, threshold) ==
    IF labels = {} THEN [err |-> "labels must not be empty", result |-> <<>>]
    ELSE IF threshold < 0 THEN [err |-> "invalid options", result |-> <<>>]
    ELSE LET logs == queryLogs(windows) IN
         IF BelowThreshold(Len(logs), threshold)
         THEN [err |-> "found fewer logs than the lower threshold", result |-> <<>>]
         ELSE processLogs(logs, ignoredUsers)

\* One page of the listing: the service returns at most cap (<= limit) items
\* after position token and the position to continue from (0 is the empty token).
dashboardsPage(listing, limit, cap, token) ==
    LET n == IF cap < limit THEN cap ELSE limit
        last == IF token + n < Len(listing) THEN token + n ELSE Len(listing)
    IN [dashboards |-> SubSeq(listing, token + 1, last),
        continue |-> IF last < Len(listing) THEN last ELSE 0]

\* allDashboardsLoop returning after its first page, whatever the token.
allDashboardsLoop_FirstPageOnly(listing, cap, failPage, continueToken, allDashboards, sent) ==
    IF Len(sent) + 1 = failPage
    THEN [err |-> "getting dashboards page", dashboards |-> <<>>,
          sent |-> Append(sent, [token |-> continueToken, page |-> Nil])]
    ELSE LET page == dashboardsPage(listing, pageSize, cap, continueToken)
         IN [err |-> Nil, dashboards |-> allDashboards \o page.dashboards,
             sent |-> Append(sent, [token |-> continueToken, page |-> page])]

\* The loop of AllDashboards; the request number failPage fails (0: none).
\* sent lists the requests made so far: the token each carried and the page
\* it was answered with.
RECURSIVE allDashboardsLoop(_, _, _, _, _, _)
allDashboardsLoop(listing, cap, failPage, continueToken, allDashboards, sent) ==
    IF Len(sent) + 1 = failPage
    THEN [err |-> "getting dashboards page", dashboards |-> <<>>,
          sent |-> Append(sent, [token |-> continueToken, page |-> Nil])]
    ELSE LET page == dashboardsPage(listing, pageSize, cap, continueToken)
             acc == allDashboards \o page.dashboards
             exchange == Append(sent, [token |-> continueToken, page |-> page])
         IN IF page.continue = 0 THEN [err |-> Nil, dashboards |-> acc, sent |-> exchange]
            ELSE allDashboardsLoop(listing, cap, failPage, page.continue, acc, exchange)

\* AllDashboards when no request fails.
AllDashboards(listing, cap) == allDashboardsLoop(listing, cap, 0, 0, <<>>, <<>>).dashboards

\* usedMap with the two fields of the key filled the wrong way round.
usedMap_Swapped(usedReads) == {[name |-> r.namespace, namespace |-> r.name] : r \in Range(usedReads)}

\* ----------------------------------------------------------- DashboardPruner
\* usedMap keyed by the name of the dashboard alone: a record stands for the
\* dashboards of that name in every namespace.
usedMap_ByName(usedReads) ==
    {[name |-> r.name, namespace |-> ns] : r \in Range(usedReads), ns \in {Namespace, OtherNamespace}}

usedMap(usedReads) == {ReadsKey(r) : r \in Range(usedReads)}

\* hasSkipTag looking at the first tag of the skip list only.
hasSkipTag_FirstOnly(skipTagList, dashboard) ==
    IF Len(skipTagList) = 0 THEN [skip |-> FALSE, tag |-> ""]
    ELSE IF HasTag(dashboard, skipTagList[1]) THEN [skip |-> TRUE, tag |-> skipTagList[1]]
    ELSE [skip |-> FALSE, tag |-> ""]


hasSkipTag(skipTagList, dashboard) ==
    IF Len(skipTagList) = 0 THEN [skip |-> FALSE, tag |-> ""]
    ELSE IF \E k \in 1..Len(skipTagList) : HasTag(dashboard, skipTagList[k])
         THEN [skip |-> TRUE,
               tag |-> skipTagList[CHOOSE k \in 1..Len(skipTagList) :
                          /\ HasTag(dashboard, skipTagList[k])
                          /\ \A j \in 1..(k - 1) : ~HasTag(dashboard, skipTagList[j])]]
         ELSE [skip |-> FALSE, tag |-> ""]

\* decide without the check of the dry flag.
decide_NoDry(dashboard, usedDashboards, skipTagList, isDry) ==
    IF Key(dashboard) \in usedDashboards THEN [outcome |-> "used", tag |-> ""]
    ELSE IF Provisioned(dashboard) THEN [outcome |-> "provisioned", tag |-> ""]
    ELSE IF hasSkipTag(skipTagList, dashboard).skip
         THEN [outcome |-> "skip_tag", tag |-> hasSkipTag(skipTagList, dashboard).tag]
    ELSE [outcome |-> "delete", tag |-> ""]

\* decide with the provisioning check moved before the usage check.
decide_ProvisionedFirst(dashboard, usedDashboards, skipTagList, isDry) ==
    IF Provisioned(dashboard) THEN [outcome |-> "provisioned", tag |-> ""]
    ELSE IF Key(dashboard) \in usedDashboards THEN [outcome |-> "used", tag |-> ""]
    ELSE IF hasSkipTag(skipTagList, dashboard).skip
         THEN [outcome |-> "skip_tag", tag |-> hasSkipTag(skipTagList, dashboard).tag]
    ELSE IF isDry THEN [outcome |-> "dry_run", tag |-> ""]
    ELSE [outcome |-> "delete", tag |-> ""]

\* The if-chain of the loop body of prune, up to the call of DeleteDashboard.
decide(dashboard, usedDashboards, skipTagList, isDry) ==
    IF Key(dashboard) \in usedDashboards THEN [outcome |-> "used", tag |-> ""]
    ELSE IF Provisioned(dashboard) THEN [outcome |-> "provisioned", tag |-> ""]
    ELSE IF hasSkipTag(skipTagList, dashboard).skip
         THEN [outcome |-> "skip_tag", tag |-> hasSkipTag(skipTagList, dashboard).tag]
    ELSE IF isDry THEN [outcome |-> "dry_run", tag |-> ""]
    ELSE [outcome |-> "delete", tag |-> ""]

\* -------------------------------------------------------------- github.Client
\* The path of the backup file of a dashboard.
BackupPath(namespace, name) == <<namespace, name>>

\* The repository answers a write that is not faulted unless the file is in
\* the way of a create or the SHA sent with an update is not the current one.
\* A request is recorded with what it carried, its status code and the SHA of
\* the file in the answer (0: none).
createFile(repo, path, content, fault, requests) ==
    LET status == IF fault = "write" THEN 500 ELSE IF repo[path].sha # 0 THEN 422 ELSE 201
        request == [op |-> "create", path |-> path, content |-> content, status |-> status,
                    answer |-> IF status = 201 THEN 1 ELSE 0]
    IN IF status # 201
       THEN [err |-> "creating file", repo |-> repo, requests |-> Append(requests, request)]
       ELSE [err |-> Nil, repo |-> [repo EXCEPT ![path] = [sha |-> 1, content |-> content]],
             requests |-> Append(requests, request)]

\* updateFile sending no SHA.
updateFile_NoSHA(repo, path, content, sha, fault, requests) ==
    LET status == IF fault = "write" THEN 500 ELSE IF repo[path].sha # 0 THEN 409 ELSE 200
        request == [op |-> "update", path |-> path, content |-> content, sha |-> 0,
                    status |-> status, answer |-> IF status = 200 THEN repo[path].sha + 1 ELSE 0]
    IN IF status # 200
       THEN [err |-> "updating file", repo |-> repo, requests |-> Append(requests, request)]
       ELSE [err |-> Nil,
             repo |-> [repo EXCEPT ![path] = [sha |-> repo[path].sha + 1, content |-> content]],
             requests |-> Append(requests, request)]

updateFile(repo, path, content, sha, fault, requests) ==
    LET status == IF fault = "write" THEN 500 ELSE IF repo[path].sha # sha THEN 409 ELSE 200
        request == [op |-> "update", path |-> path, content |-> content, sha |-> sha,
                    status |-> status, answer |-> IF status = 200 THEN repo[path].sha + 1 ELSE 0]
    IN IF status # 200
       THEN [err |-> "updating file", repo |-> repo, requests |-> Append(requests, request)]
       ELSE [err |-> Nil,
             repo |-> [repo EXCEPT ![path] = [sha |-> repo[path].sha + 1, content |-> content]],
             requests |-> Append(requests, request)]

\* BackUpDashboard reporting the 404 of GetContents as an error.
BackUpDashboard_NotFoundFails(repo, namespace, name, dashboardJSON, fault) ==
    LET path == BackupPath(namespace, name)
        status == IF fault = "get" THEN 500 ELSE IF repo[path].sha = 0 THEN 404 ELSE 200
        get == [op |-> "get", path |-> path, status |-> status,
                answer |-> IF status = 200 THEN repo[path].sha ELSE 0]
    IN IF status # 200
       THEN [err |-> "checking if file exists", repo |-> repo, requests |-> <<get>>]
       ELSE updateFile(repo, path, dashboardJSON, get.answer, fault, <<get>>)

\* BackUpDashboard on the repository repo; fault names the request that fails
\* for a reason of its own ("none": no request does).
BackUpDashboard(repo, namespace, name, dashboardJSON, fault) ==
    LET path == BackupPath(namespace, name)
        status == IF fault = "get" THEN 500 ELSE IF repo[path].sha = 0 THEN 404 ELSE 200
        get == [op |-> "get", path |-> path, status |-> status,
                answer |-> IF status = 200 THEN repo[path].sha ELSE 0]
    IN IF status = 404 THEN createFile(repo, path, dashboardJSON, fault, <<get>>)
       ELSE IF status # 200
            THEN [err |-> "checking if file exists", repo |-> repo, requests |-> <<get>>]
       ELSE updateFile(repo, path, dashboardJSON, get.answer, fault, <<get>>)

\* ---------------------------------------------------------------- loki.Client
\* Strings that hold numbers are sequences of characters.
Digits == <<"0", "1", "2", "3", "4", "5", "6", "7", "8", "9">>

IsDigit(c) == \E d \in 1..10 : Digits[d] = c

DigitVal(c) == (CHOOSE d \in 1..10 : Digits[d] = c) - 1

\* fmt.Sprintf("%d", n) of a non-negative n.
RECURSIVE FormatInt(_)
FormatInt(n) ==
    IF n < 10 THEN <<Digits[n + 1]>>
    ELSE FormatInt(n \div 10) \o <<Digits[(n % 10) + 1]>>

RECURSIVE ParseDigits(_, _)
ParseDigits(s, acc) ==
    IF s = <<>> THEN acc ELSE ParseDigits(Tail(s), 10 * acc + DigitVal(Head(s)))

\* strconv.ParseInt(s, 10, 64) on unsigned input: a syntax error unless s is a
\* non-empty run of digits.
ParseInt(s) ==
    IF s = <<>> \/ \E k \in 1..Len(s) : ~IsDigit(s[k])
    THEN [err |-> "invalid syntax", n |-> 0]
    ELSE [err |-> Nil, n |-> ParseDigits(s, 0)]

\* Stream label sets of the lines held by the log store: a view of d1 by
\* alice, an anonymous view of d2 through the UI, a view of d2 by an ignored user.
ReaderStreams ==
    << [path |-> ApiPath(Namespace, "d1"), uname |-> "alice"],
       [path |-> DtoPath(Namespace, "d2")],
       [path |-> ApiPath(Namespace, "d2"), uname |-> "bot"] >>

Reverse(s) == [k \in 1..Len(s) |-> s[Len(s) + 1 - k]]

\* The order in which the store lists the streams of a response.
StreamOrders == {"listed", "reversed"}
StreamsIn(order) == IF order = "listed" THEN ReaderStreams ELSE Reverse(ReaderStreams)

Take(s, n) == SubSeq(s, 1, IF n < Len(s) THEN n ELSE Len(s))

\* Selected for a request that carries no limit.
Selected_NoLimit(store, start, end, limit) ==
    SelectSeq(store, LAMBDA e : e.ts >= start /\ e.ts < end)

\* The entries the store selects for one request: those with start <= ts < end,
\* oldest first (direction=forward), at most limit of them.
Selected(store, start, end, limit) ==
    Take(SelectSeq(store, LAMBDA e : e.ts >= start /\ e.ts < end), limit)

\* data.result of the response: the selected entries grouped by stream.
Result(entries, order) ==
    LET present == SelectSeq(StreamsIn(order),
                             LAMBDA s : \E k \in 1..Len(entries) : entries[k].stream = s)
        valuesOf(s) == LET es == SelectSeq(entries, LAMBDA e : e.stream = s)
                       IN [k \in 1..Len(es) |-> <<FormatInt(es[k].ts), es[k].msg>>]
    IN [k \in 1..Len(present) |-> [stream |-> present[k], values |-> valuesOf(present[k])]]

\* What can go wrong with one request.
Faults == {"do", "read", "status_code", "unmarshal", "status", "value_format", "timestamp"}

BadValue(fault) == IF fault = "value_format" THEN << <<"1">> >> ELSE << <<"x">>, 0 >>

\* A result one of whose values is malformed.
Corrupt(result, fault) ==
    IF result = <<>> THEN << [stream |-> ReaderStreams[1], values |-> <<BadValue(fault)>>] >>
    ELSE [result EXCEPT ![Len(result)].values[Len(result[Len(result)].values)] = BadValue(fault)]

\* The answer of the store (or of the transport) to one query_range request.
Response(store, start, end, limit, order, fault) ==
    LET result == Result(Selected(store, start, end, limit), order) IN
    [doErr |-> fault = "do",
     readErr |-> fault = "read",
     statusCode |-> IF fault = "status_code" THEN 500 ELSE 200,
     json |-> fault # "unmarshal",
     status |-> IF fault = "status" THEN "error" ELSE "success",
     result |-> IF fault \in {"value_format", "timestamp"} THEN Corrupt(result, fault) ELSE result]

NewLog(timestamp, message, stream) ==
    [timestamp |-> timestamp, message |-> message, stream |-> stream]

\* pageLoop putting every log in front of the logs read so far.
RECURSIVE pageLoop_Prepend(_, _, _, _)
pageLoop_Prepend(result, r, v, logs) ==
    IF r > Len(result) THEN [err |-> Nil, logs |-> logs]
    ELSE IF v > Len(result[r].values) THEN pageLoop_Prepend(result, r + 1, 1, logs)
    ELSE LET value == result[r].values[v] IN
         IF Len(value) # 2 THEN [err |-> "invalid value format in Loki response", logs |-> <<>>]
         ELSE LET nanoseconds == ParseInt(value[1]) IN
              IF nanoseconds.err # Nil THEN [err |-> "parsing timestamp", logs |-> <<>>]
              ELSE pageLoop_Prepend(result, r, v + 1,
                      <<NewLog(nanoseconds.n, value[2], result[r].stream)>> \o logs)

\* The two nested loops of queryRangePage over response.Data.Result.
RECURSIVE pageLoop(_, _, _, _)
pageLoop(result, r, v, logs) ==
    IF r > Len(result) THEN [err |-> Nil, logs |-> logs]
    ELSE IF v > Len(result[r].values) THEN pageLoop(result, r + 1, 1, logs)
    ELSE LET value == result[r].values[v] IN
         IF Len(value) # 2 THEN [err |-> "invalid value format in Loki response", logs |-> <<>>]
         ELSE LET nanoseconds == ParseInt(value[1]) IN
              IF nanoseconds.err # Nil THEN [err |-> "parsing timestamp", logs |-> <<>>]
              ELSE pageLoop(result, r, v + 1,
                            Append(logs, NewLog(nanoseconds.n, value[2], result[r].stream)))

queryRangePage(resp) ==
    IF resp.doErr THEN [err |-> "executing request", logs |-> <<>>]
    ELSE IF resp.readErr THEN [err |-> "reading response body", logs |-> <<>>]
    ELSE IF resp.statusCode # 200 THEN [err |-> "unexpected status code", logs |-> <<>>]
    ELSE IF ~resp.json THEN [err |-> "unmarshalling response", logs |-> <<>>]
    ELSE IF resp.status # "success" THEN [err |-> "query failed with status", logs |-> <<>>]
    ELSE pageLoop(resp.result, 1, 1, <<>>)

NoFault == [page |-> 0, fault |-> "none"]

\* queryRangeLoop going on until a page comes back empty.
RECURSIVE queryRangeLoop_UntilEmpty(_, _, _, _, _, _, _, _)
queryRangeLoop_UntilEmpty(store, limit, order, plan, end, currentStart, allLogs, sizes) ==
    LET n == Len(sizes) + 1
        fault == IF plan.page = n THEN plan.fault ELSE "none"
        page == queryRangePage(Response(store, currentStart, end, limit, order, fault))
    IN IF page.err # Nil
       THEN [err |-> page.err, logs |-> <<>>, requests |-> n, sizes |-> sizes,
             starts |-> <<currentStart>>]
       ELSE IF Len(page.logs) = 0
            THEN [err |-> Nil, logs |-> allLogs \o page.logs, requests |-> n,
                  sizes |-> Append(sizes, Len(page.logs)),
                  starts |-> <<currentStart>>]
            ELSE LET rest == queryRangeLoop_UntilEmpty(store, limit, order, plan, end,
                                page.logs[Len(page.logs)].timestamp + 1,
                                allLogs \o page.logs, Append(sizes, Len(page.logs)))
                 IN [rest EXCEPT !.starts = <<currentStart>> \o @]

\* queryRangeLoop handing back the logs of the earlier pages with the error.
RECURSIVE queryRangeLoop_Partial(_, _, _, _, _, _, _, _)
queryRangeLoop_Partial(store, limit, order, plan, end, currentStart, allLogs, sizes) ==
    LET n == Len(sizes) + 1
        fault == IF plan.page = n THEN plan.fault ELSE "none"
        page == queryRangePage(Response(store, currentStart, end, limit, order, fault))
    IN IF page.err # Nil
       THEN [err |-> page.err, logs |-> allLogs, requests |-> n, sizes |-> sizes,
             starts |-> <<currentStart>>]
       ELSE IF Len(page.logs) < limit
            THEN [err |-> Nil, logs |-> allLogs \o page.logs, requests |-> n,
                  sizes |-> Append(sizes, Len(page.logs)),
                  starts |-> <<currentStart>>]
            ELSE LET rest == queryRangeLoop_Partial(store, limit, order, plan, end,
                                page.logs[Len(page.logs)].timestamp + 1,
                                allLogs \o page.logs, Append(sizes, Len(page.logs)))
                 IN [rest EXCEPT !.starts = <<currentStart>> \o @]

\* queryRangeLoop stopping after a page that is exactly full.
RECURSIVE queryRangeLoop_StopWhenFull(_, _, _, _, _, _, _, _)
queryRangeLoop_StopWhenFull(store, limit, order, plan, end, currentStart, allLogs, sizes) ==
    LET n == Len(sizes) + 1
        fault == IF plan.page = n THEN plan.fault ELSE "none"
        page == queryRangePage(Response(store, currentStart, end, limit, order, fault))
    IN IF page.err # Nil
       THEN [err |-> page.err, logs |-> <<>>, requests |-> n, sizes |-> sizes,
             starts |-> <<currentStart>>]
       ELSE IF Len(page.logs) <= limit
            THEN [err |-> Nil, logs |-> allLogs \o page.logs, requests |-> n,
                  sizes |-> Append(sizes, Len(page.logs)),
                  starts |-> <<currentStart>>]
            ELSE LET rest == queryRangeLoop_StopWhenFull(store, limit, order, plan, end,
                                page.logs[Len(page.logs)].timestamp + 1,
                                allLogs \o page.logs, Append(sizes, Len(page.logs)))
                 IN [rest EXCEPT !.starts = <<currentStart>> \o @]

\* queryRangeLoop asking for the last page a second time before it stops.
RECURSIVE queryRangeLoop_Repeat(_, _, _, _, _, _, _, _)
queryRangeLoop_Repeat(store, limit, order, plan, end, currentStart, allLogs, sizes) ==
    LET n == Len(sizes) + 1
        fault == IF plan.page = n THEN plan.fault ELSE "none"
        page == queryRangePage(Response(store, currentStart, end, limit, order, fault))
    IN IF page.err # Nil
       THEN [err |-> page.err, logs |-> <<>>, requests |-> n, sizes |-> sizes,
             starts |-> <<currentStart>>]
       ELSE IF Len(page.logs) < limit
            THEN [err |-> Nil, logs |-> allLogs \o page.logs, requests |-> n + 1,
                  sizes |-> Append(Append(sizes, Len(page.logs)), Len(page.logs)),
                  starts |-> <<currentStart, currentStart>>]
            ELSE LET rest == queryRangeLoop_Repeat(store, limit, order, plan, end,
                                page.logs[Len(page.logs)].timestamp + 1,
                                allLogs \o page.logs, Append(sizes, Len(page.logs)))
                 IN [rest EXCEPT !.starts = <<currentStart>> \o @]

\* The loop of QueryRange from its n-th request on. plan names the request
\* that goes wrong, if any; sizes records the length of every page received,
\* starts the start time of every request sent.
RECURSIVE queryRangeLoop(_, _, _, _, _, _, _, _)
queryRangeLoop(store, limit, order, plan, end, currentStart, allLogs, sizes) ==
    LET n == Len(sizes) + 1
        fault == IF plan.page = n THEN plan.fault ELSE "none"
        page == queryRangePage(Response(store, currentStart, end, limit, order, fault))
    IN IF page.err # Nil
       THEN [err |-> page.err, logs |-> <<>>, requests |-> n, sizes |-> sizes,
             starts |-> <<currentStart>>]
       ELSE IF Len(page.logs) < limit
            THEN [err |-> Nil, logs |-> allLogs \o page.logs, requests |-> n,
                  sizes |-> Append(sizes, Len(page.logs)),
                  starts |-> <<currentStart>>]
            ELSE LET rest == queryRangeLoop(store, limit, order, plan, end,
                                page.logs[Len(page.logs)].timestamp + 1,
                                allLogs \o page.logs, Append(sizes, Len(page.logs)))
                 IN [rest EXCEPT !.starts = <<currentStart>> \o @]

QueryRange(store, limit, order, plan, start, end) ==
    queryRangeLoop(store, limit, order, plan, end, start, <<>>, <<>>)

\* queryLogsLoop asking every window for one time unit more than its size.
RECURSIVE queryLogsLoop_Overlap(_, _, _, _, _, _, _, _)
queryLogsLoop_Overlap(store, limit, order, failWindow, chunkStart, end, chunkSize, windows) ==
    IF ~(chunkStart < end) THEN [err |-> Nil, windows |-> windows, ranges |-> <<>>]
    ELSE LET chunkEnd == IF chunkStart + chunkSize + 1 > end THEN end
                         ELSE chunkStart + chunkSize + 1
             plan == IF failWindow = Len(windows) + 1
                     THEN [page |-> 1, fault |-> "status_code"] ELSE NoFault
             chunkLogs == QueryRange(store, limit, order, plan, chunkStart, chunkEnd)
             range == [start |-> chunkStart, end |-> chunkEnd]
         IN IF chunkLogs.err # Nil
            THEN [err |-> "querying loki", windows |-> <<>>, ranges |-> <<range>>]
            ELSE LET rest == queryLogsLoop_Overlap(store, limit, order, failWindow,
                                                   chunkStart + chunkSize, end, chunkSize,
                                                   Append(windows, chunkLogs.logs))
                 IN [rest EXCEPT !.ranges = <<range>> \o @]

\* queryLogsLoop asking every window for a full chunkSize, the last one too.
RECURSIVE queryLogsLoop_Untruncated(_, _, _, _, _, _, _, _)
queryLogsLoop_Untruncated(store, limit, order, failWindow, chunkStart, end, chunkSize, windows) ==
    IF ~(chunkStart < end) THEN [err |-> Nil, windows |-> windows, ranges |-> <<>>]
    ELSE LET chunkEnd == chunkStart + chunkSize
             plan == IF failWindow = Len(windows) + 1
                     THEN [page |-> 1, fault |-> "status_code"] ELSE NoFault
             chunkLogs == QueryRange(store, limit, order, plan, chunkStart, chunkEnd)
             range == [start |-> chunkStart, end |-> chunkEnd]
         IN IF chunkLogs.err # Nil
            THEN [err |-> "querying loki", windows |-> <<>>, ranges |-> <<range>>]
            ELSE LET rest == queryLogsLoop_Untruncated(store, limit, order, failWindow,
                                                       chunkStart + chunkSize, end, chunkSize,
                                                       Append(windows, chunkLogs.logs))
                 IN [rest EXCEPT !.ranges = <<range>> \o @]

\* The loop of queryLogs over the windows of [start, end): the QueryRange
\* result of every window, or the error of the first window that fails, and
\* the range of every QueryRange call made. failWindow names the window whose
\* first request goes wrong (0: none).
RECURSIVE queryLogsLoop(_, _, _, _, _, _, _, _)
queryLogsLoop(store, limit, order, failWindow, chunkStart, end, chunkSize, windows) ==
    IF ~(chunkStart < end) THEN [err |-> Nil, windows |-> windows, ranges |-> <<>>]
    ELSE LET chunkEnd == IF chunkStart + chunkSize > end THEN end ELSE chunkStart + chunkSize
             plan == IF failWindow = Len(windows) + 1
                     THEN [page |-> 1, fault |-> "status_code"] ELSE NoFault
             chunkLogs == QueryRange(store, limit, order, plan, chunkStart, chunkEnd)
             range == [start |-> chunkStart, end |-> chunkEnd]
         IN IF chunkLogs.err # Nil
            THEN [err |-> "querying loki", windows |-> <<>>, ranges |-> <<range>>]
            ELSE LET rest == queryLogsLoop(store, limit, order, failWindow,
                                           chunkStart + chunkSize, end, chunkSize,
                                           Append(windows, chunkLogs.logs))
                 IN [rest EXCEPT !.ranges = <<range>> \o @]

\* log.Stream() of every fetched line.
Streams(logs) == [k \in 1..Len(logs) |-> logs[k].stream]

\* --------------------------------------------------------------------- state
VARIABLES
    dry,             \* DashboardPruner.dry
    skipTags,        \* DashboardPruner.skipTags
    lowerThreshold,  \* DashboardPruner.lowerThreshold
    grafana,         \* dashboards held by the dashboard service, in listing order
    archive,         \* backup repository: dashboard name -> stored object
    pc,              \* where Start / prune / DeleteDashboard / BackUpDashboard stands
    cancelled,       \* ctx.Done() is closed
    runs,            \* prune runs started so far
    all,             \* prune: result of AllDashboards
    used,            \* prune: result of UsedDashboards
    fetched,         \* number of log entries fetched in this run (-1: none yet)
    i,               \* prune: loop index into all
    deleted,         \* prune: the deleted slice
    calls,           \* calls of the backup repository and DELETE requests answered in this run
    report,          \* per-dashboard log lines of this run
    lastErr,         \* error returned by the last finished prune (Nil: none)
    store,           \* log store: its entries, oldest first
    limit,           \* loki.Client.limit
    order,           \* the order in which the log store lists streams
    rpc,             \* where the caller of loki.Client / UsedDashboards stands
    answer,          \* what QueryRange returned
    usage            \* what UsedDashboards fetched and returned

vars == <<dry, skipTags, lowerThreshold, grafana, archive, pc, cancelled, runs,
          all, used, fetched, i, deleted, calls, report, lastErr,
          store, limit, order, rpc, answer, usage>>

reader == <<store, limit, order, rpc, answer, usage>>
pruner == <<grafana, archive, pc, cancelled, runs, all, used, fetched, i, deleted,
            calls, report, lastErr>>

config == <<dry, skipTags, lowerThreshold>>
run == <<all, used, fetched, i, deleted, calls, report>>

\* Streams of the log lines the log store may hold for the lookback period:
\* a view of d1 through the API, an anonymous view of d2 through the UI, a view
\* of the d1 of another namespace, a view by an ignored user, a line whose
\* path has another shape and a line without path label.
LogStreams ==
    { [path |-> ApiPath(Namespace, "d1"), uname |-> "alice"],
      [path |-> DtoPath(Namespace, "d2")],
      [path |-> ApiPath(OtherNamespace, "d1"), uname |-> "alice"],
      [path |-> ApiPath(Namespace, "d2"), uname |-> "bot"],
      [path |-> <<"", "api", "dashboards", "uid", "d1">>, uname |-> "alice"],
      [uname |-> "alice"] }

\* The lines of the period: up to MaxLogs lines, each stream at most once.
LogSeqs ==
    UNION { {l \in [1..n -> LogStreams] : \A a, b \in 1..n : l[a] = l[b] => a = b} :
              n \in 0..MaxLogs }

\* Listings of the pruned namespace: the k-th dashboard is named DashNames[k].
Listings ==
    UNION { { [k \in 1..n |-> Dashboard(DashNames[k], Namespace, f[k][2], f[k][1])] :
                f \in [1..n -> ManagedByChoices \X DashTagChoices] } : n \in 0..MaxDashboards }

\* A dashboard of another namespace, always held by the service.
Foreign == Dashboard("d1", OtherNamespace, <<>>, <<>>)

Absent == [sha |-> 0, content |-> <<>>]

NoAnswer ==
    [plan |-> NoFault, err |-> Nil, logs |-> <<>>, requests |-> 0, sizes |-> <<>>,
     starts |-> <<>>]
NoUsage ==
    [err |-> Nil, result |-> <<>>, windows |-> <<>>, chunkSize |-> 0, ranges |-> <<>>]

\* No log store is attached: UsedDashboards is answered by the environment.
ReaderOff ==
    /\ store = <<>>
    /\ limit = 1
    /\ order = "listed"
    /\ rpc = "off"
    /\ answer = NoAnswer
    /\ usage = NoUsage

Init ==
    /\ ReaderOff
    /\ dry \in BOOLEAN
    /\ skipTags \in SkipTagChoices
    /\ lowerThreshold \in LowerThresholdChoices
    /\ grafana \in {<<Foreign>> \o l : l \in Listings}
    /\ archive = [n \in Range(DashNames) |-> Absent]
    /\ pc = "start"
    /\ cancelled = FALSE
    /\ runs = 0
    /\ all = <<>>
    /\ used = <<>>
    /\ fetched = -1
    /\ i = 0
    /\ deleted = <<>>
    /\ calls = <<>>
    /\ report = <<>>
    /\ lastErr = Nil

\* prune is entered: the request of AllDashboards is issued.
BeginRun ==
    /\ pc' = "list"
    /\ runs' = runs + 1
    /\ all' = <<>>
    /\ used' = <<>>
    /\ fetched' = -1
    /\ i' = 0
    /\ deleted' = <<>>
    /\ calls' = <<>>
    /\ report' = <<>>
    /\ lastErr' = Nil

\* EndRun with tick giving up the schedule when prune returns an error.
EndRun_Fatal(err) ==
    /\ pc' = IF err = Nil THEN "idle" ELSE "stopped"
    /\ lastErr' = err

\* prune returns err to tick, which logs it; Start is back in its select.
EndRun(err) ==
    /\ pc' = "idle"
    /\ lastErr' = err

\* Start looking at ctx.Done() before its first tick.
Start_ChecksDone ==
    /\ pc = "start"
    /\ ~cancelled
    /\ BeginRun
    /\ UNCHANGED <<reader, config, grafana, archive, cancelled>>

\* Start: the immediate tick, before the select loop is entered.
Start ==
    /\ pc = "start"
    /\ BeginRun
    /\ UNCHANGED <<reader, config, grafana, archive, cancelled>>

\* Tick with every tick of the timer running prune on its own, whether or not
\* the run before it has returned.
Tick_Concurrent ==
    /\ pc \notin {"start", "stopped", "off"}
    /\ runs < MaxRuns
    /\ BeginRun
    /\ UNCHANGED <<reader, config, grafana, archive, cancelled>>

\* case <-tick
Tick ==
    /\ pc = "idle"
    /\ runs < MaxRuns
    /\ BeginRun
    /\ UNCHANGED <<reader, config, grafana, archive, cancelled>>

\* Stop taken while the loop of prune is under way.
Stop_MidRun ==
    /\ pc \in {"idle", "loop"}
    /\ cancelled
    /\ pc' = "stopped"
    /\ UNCHANGED <<reader, config, grafana, archive, cancelled, runs, run, lastErr>>

\* case <-ctx.Done()
Stop ==
    /\ pc = "idle"
    /\ cancelled
    /\ pc' = "stopped"
    /\ UNCHANGED <<reader, config, grafana, archive, cancelled, runs, run, lastErr>>

\* The context of Start is cancelled.
Cancel ==
    /\ ~cancelled
    /\ pc # "stopped"
    /\ cancelled' = TRUE
    /\ UNCHANGED <<reader, config, grafana, archive, pc, runs, run, lastErr>>

\* ListingOf answering with the dashboards of every namespace.
ListingOf_AllNamespaces(namespace) == grafana

\* The dashboards the service lists for a request made for namespace.
ListingOf(namespace) == SelectSeq(grafana, LAMBDA d : d.Namespace = namespace)

AllDashboardsOk ==
    /\ pc = "list"
    /\ \E cap \in 1..MaxPage : all' = AllDashboards(ListingOf(Namespace), cap)
    /\ pc' = "usage"
    /\ UNCHANGED <<reader, config, grafana, archive, cancelled, runs, used, fetched, i, deleted,
                   calls, report, lastErr>>

AllDashboardsErr ==
    /\ pc = "list"
    /\ EndRun("fetching all Grafana dashboards")
    /\ UNCHANGED <<reader, config, grafana, archive, cancelled, runs, run>>

\* The answers the log store can give to the two windows of queryLogs.
WindowAnswers ==
    UNION { { <<SubSeq(logs, 1, k), SubSeq(logs, k + 1, Len(logs))>> : k \in 0..Len(logs) } :
              logs \in LogSeqs }

\* What UsedDashboards returns on them, per configured lower threshold.
UsageOutcomes ==
    [t \in LowerThresholdChoices |->
        { [res |-> UsedDashboards(Labels, w, IgnoredUsers, t), fetched |-> Len(queryLogs(w))] :
            w \in WindowAnswers }]

\* Every window of queryLogs is answered and UsedDashboards returns records.
UsedDashboardsOk ==
    /\ pc = "usage"
    /\ \E o \in UsageOutcomes[lowerThreshold] :
         /\ o.res.err = Nil
         /\ used' = o.res.result
         /\ fetched' = o.fetched
    /\ pc' = "loop"
    /\ i' = 1
    /\ UNCHANGED <<reader, config, grafana, archive, cancelled, runs, all, deleted, calls, report, lastErr>>

\* Every window of queryLogs is answered and UsedDashboards returns an error.
UsedDashboardsErr ==
    /\ pc = "usage"
    /\ \E o \in UsageOutcomes[lowerThreshold] :
         /\ o.res.err # Nil
         /\ used' = o.res.result
         /\ fetched' = o.fetched
         /\ EndRun(o.res.err)
    /\ UNCHANGED <<reader, config, grafana, archive, cancelled, runs, all, i, deleted, calls, report>>

\* A QueryRange call of queryLogs fails.
UsedDashboardsQueryErr ==
    /\ pc = "usage"
    /\ EndRun("querying loki")
    /\ UNCHANGED <<reader, config, grafana, archive, cancelled, runs, run>>

\* Current taking the dashboards from the end of the listing.
Current_Backwards == all[Len(all) + 1 - i]

\* dashboard := &all[i]
Current == all[i]

Decision == decide(Current, usedMap(used), skipTags, dry)

\* One iteration of the loop of prune that ends in continue.
Skip ==
    /\ pc = "loop"
    /\ i <= Len(all)
    /\ Decision.outcome # "delete"
    /\ report' = Append(report, [name |-> Current.Name, outcome |-> Decision.outcome,
                                 tag |-> Decision.tag])
    /\ i' = i + 1
    /\ UNCHANGED <<reader, config, grafana, archive, pc, cancelled, runs, all, used, fetched,
                   deleted, calls, lastErr>>

\* prune calls DeleteDashboard, which calls BackUpDashboard, which asks the
\* repository for the contents at the backup path.
DeleteDashboard ==
    /\ pc = "loop"
    /\ i <= Len(all)
    /\ Decision.outcome = "delete"
    /\ report' = Append(report, [name |-> Current.Name, outcome |-> "delete", tag |-> ""])
    /\ IF Current.Name = ""
       THEN EndRun("dashboard name must not be empty")
       ELSE pc' = "backup_get" /\ UNCHANGED lastErr
    /\ UNCHANGED <<reader, config, grafana, archive, cancelled, runs, all, used, fetched, i,
                   deleted, calls>>

Call(op, ok) == [op |-> op, key |-> Key(Current), ok |-> ok]

\* GetContents answers 404: createFile is called.
GetContentsNotFound ==
    /\ pc = "backup_get"
    /\ archive[Current.Name].sha = 0
    /\ calls' = Append(calls, Call("get", TRUE))
    /\ pc' = "backup_create"
    /\ UNCHANGED <<reader, config, grafana, archive, cancelled, runs, all, used, fetched, i, deleted,
                   report, lastErr>>

\* GetContentsFound with createFile called although the file is there.
GetContentsFound_Creates ==
    /\ pc = "backup_get"
    /\ archive[Current.Name].sha > 0
    /\ calls' = Append(calls, Call("get", TRUE))
    /\ pc' = "backup_create"
    /\ UNCHANGED <<reader, config, grafana, archive, cancelled, runs, all, used, fetched, i, deleted,
                   report, lastErr>>

\* GetContents answers with the stored object: updateFile is called with its SHA.
GetContentsFound ==
    /\ pc = "backup_get"
    /\ archive[Current.Name].sha > 0
    /\ calls' = Append(calls, Call("get", TRUE))
    /\ pc' = "backup_update"
    /\ UNCHANGED <<reader, config, grafana, archive, cancelled, runs, all, used, fetched, i, deleted,
                   report, lastErr>>

\* GetContentsErr with every error of GetContents taken for "not found".
GetContentsErr_AsNotFound ==
    /\ pc = "backup_get"
    /\ calls' = Append(calls, Call("get", FALSE))
    /\ pc' = "backup_create"
    /\ UNCHANGED <<reader, config, grafana, archive, cancelled, runs, all, used, fetched, i, deleted,
                   report, lastErr>>

\* GetContents fails with anything but 404.
GetContentsErr ==
    /\ pc = "backup_get"
    /\ calls' = Append(calls, Call("get", FALSE))
    /\ EndRun("checking if file exists")
    /\ UNCHANGED <<reader, config, grafana, archive, cancelled, runs, all, used, fetched, i, deleted,
                   report>>

\* BackUpDashboard returned nil: DeleteDashboard sends the DELETE request.
createFileOk ==
    /\ pc = "backup_create"
    /\ archive' = [archive EXCEPT ![Current.Name] = [sha |-> 1, content |-> Current.Spec]]
    /\ calls' = Append(calls, Call("create", TRUE))
    /\ pc' = "delete"
    /\ UNCHANGED <<reader, config, grafana, cancelled, runs, all, used, fetched, i, deleted, report, lastErr>>

\* createFileErr with the error of createFile dropped: the DELETE request is sent.
createFileErr_Swallowed ==
    /\ pc = "backup_create"
    /\ calls' = Append(calls, Call("create", FALSE))
    /\ pc' = "delete"
    /\ UNCHANGED <<reader, config, grafana, archive, cancelled, runs, all, used, fetched, i, deleted,
                   report, lastErr>>


createFileErr ==
    /\ pc = "backup_create"
    /\ calls' = Append(calls, Call("create", FALSE))
    /\ EndRun("creating file")
    /\ UNCHANGED <<reader, config, grafana, archive, cancelled, runs, all, used, fetched, i, deleted, report>>

\* updateFile is answered 200: the call is recorded with the SHA it sent, the
\* one GetContents returned.
updateFileOk ==
    /\ pc = "backup_update"
    /\ archive' = [archive EXCEPT ![Current.Name] =
                      [sha |-> archive[Current.Name].sha + 1, content |-> Current.Spec]]
    /\ calls' = Append(calls, [op |-> "update", key |-> Key(Current), ok |-> TRUE,
                               sha |-> archive[Current.Name].sha])
    /\ pc' = "delete"
    /\ UNCHANGED <<reader, config, grafana, cancelled, runs, all, used, fetched, i, deleted, report, lastErr>>

updateFileErr ==
    /\ pc = "backup_update"
    /\ calls' = Append(calls, [op |-> "update", key |-> Key(Current), ok |-> FALSE,
                               sha |-> archive[Current.Name].sha])
    /\ EndRun("updating file")
    /\ UNCHANGED <<reader, config, grafana, archive, cancelled, runs, all, used, fetched, i, deleted, report>>

Without(listing, key) == SelectSeq(listing, LAMBDA d : Key(d) # key)

\* DeleteOk with the dashboard still listed by the service afterwards.
DeleteOk_StillListed ==
    /\ pc = "delete"
    /\ calls' = Append(calls, Call("delete", TRUE))
    /\ deleted' = Append(deleted, Key(Current))
    /\ i' = i + 1
    /\ pc' = "loop"
    /\ UNCHANGED <<reader, config, grafana, archive, cancelled, runs, all, used, fetched, report,
                   lastErr>>

\* DELETE answers 200 with status "Success".
DeleteOk ==
    /\ pc = "delete"
    /\ grafana' = Without(grafana, Key(Current))
    /\ calls' = Append(calls, Call("delete", TRUE))
    /\ deleted' = Append(deleted, Key(Current))
    /\ i' = i + 1
    /\ pc' = "loop"
    /\ UNCHANGED <<reader, config, archive, cancelled, runs, all, used, fetched, report, lastErr>>

\* DeleteStatusErr with the error logged and the loop carried on.
DeleteStatusErr_Continue ==
    /\ pc = "delete"
    /\ calls' = Append(calls, Call("delete", FALSE))
    /\ lastErr' = "unexpected status code"
    /\ i' = i + 1
    /\ pc' = "loop"
    /\ UNCHANGED <<reader, config, grafana, archive, cancelled, runs, all, used, fetched, deleted, report>>

\* The request fails or answers with a status code other than 200.
DeleteStatusErr ==
    /\ pc = "delete"
    /\ calls' = Append(calls, Call("delete", FALSE))
    /\ EndRun("unexpected status code")
    /\ UNCHANGED <<reader, config, grafana, archive, cancelled, runs, all, used, fetched, i, deleted, report>>

\* The status a 200 answer of DELETE may carry in its body when it is not "Success".
FailureStatuses == {"Failure", "success"}

\* DeleteBodyErr taking every 200 answer for a deletion, whatever its body.
DeleteBodyErr_Ignored ==
    /\ pc = "delete"
    /\ grafana' \in {grafana, Without(grafana, Key(Current))}
    /\ \E status \in FailureStatuses :
         calls' = Append(calls, [op |-> "delete", key |-> Key(Current), ok |-> FALSE,
                                 code |-> 200, status |-> status])
    /\ deleted' = Append(deleted, Key(Current))
    /\ i' = i + 1
    /\ pc' = "loop"
    /\ UNCHANGED <<reader, config, archive, cancelled, runs, all, used, fetched, report, lastErr>>

\* DELETE answers 200 but the status of the body is not "Success": the
\* dashboard may have been deleted.  The call is recorded with the answer.
DeleteBodyErr ==
    /\ pc = "delete"
    /\ grafana' \in {grafana, Without(grafana, Key(Current))}
    /\ \E status \in FailureStatuses :
         calls' = Append(calls, [op |-> "delete", key |-> Key(Current), ok |-> FALSE,
                                 code |-> 200, status |-> status])
    /\ EndRun("response body claims failure")
    /\ UNCHANGED <<reader, config, archive, cancelled, runs, all, used, fetched, i, deleted, report>>

\* The loop of prune is over: the final log line is written and nil returned.
\* Finish logging the number of listed dashboards as the deleted count.
Finish_CountsListed ==
    /\ pc = "loop"
    /\ i > Len(all)
    /\ report' = Append(report, [name |-> "", outcome |-> "finished", tag |-> "",
                                 deleted_count |-> Len(all), deleted_dashboards |-> deleted])
    /\ EndRun(Nil)
    /\ UNCHANGED <<reader, config, grafana, archive, cancelled, runs, all, used, fetched, i, deleted, calls>>

\* The loop is over: prune logs "Finished pruning Grafana dashboards" with
\* deleted_count and deleted_dashboards, and returns nil.
Finish ==
    /\ pc = "loop"
    /\ i > Len(all)
    /\ report' = Append(report, [name |-> "", outcome |-> "finished", tag |-> "",
                                 deleted_count |-> Len(deleted), deleted_dashboards |-> deleted])
    /\ EndRun(Nil)
    /\ UNCHANGED <<reader, config, grafana, archive, cancelled, runs, all, used, fetched, i, deleted, calls>>

Next ==
    \/ Start
    \/ Tick
    \/ Stop
    \/ Cancel
    \/ AllDashboardsOk
    \/ AllDashboardsErr
    \/ UsedDashboardsOk
    \/ UsedDashboardsErr
    \/ UsedDashboardsQueryErr
    \/ Skip
    \/ DeleteDashboard
    \/ GetContentsNotFound
    \/ GetContentsFound
    \/ GetContentsErr
    \/ createFileOk
    \/ createFileErr
    \/ updateFileOk
    \/ updateFileErr
    \/ DeleteOk
    \/ DeleteStatusErr
    \/ DeleteBodyErr
    \/ Finish

Spec == Init /\ [][Next]_vars

\* The steps the pruner takes by itself once Start is called: every request
\* of a run is answered, with a result or with an error.
RunStep ==
    \/ Start
    \/ AllDashboardsOk
    \/ AllDashboardsErr
    \/ UsedDashboardsOk
    \/ UsedDashboardsErr
    \/ UsedDashboardsQueryErr
    \/ Skip
    \/ DeleteDashboard
    \/ GetContentsNotFound
    \/ GetContentsFound
    \/ GetContentsErr
    \/ createFileOk
    \/ createFileErr
    \/ updateFileOk
    \/ updateFileErr
    \/ DeleteOk
    \/ DeleteStatusErr
    \/ DeleteBodyErr
    \/ Finish

\* The goroutine of Start keeps running, and its select, which chooses at
\* random among the cases that are ready, does not pass over a closed
\* ctx.Done() for ever.
LiveSpec == Init /\ [][Next]_vars /\ WF_vars(RunStep) /\ SF_vars(Stop)

\* ------------------------------------------------- the log reader on its own
\* The period read is [RangeStart, RangeEnd): every entry of the store lies in it.
RangeStart == 1
RangeEnd == MaxEntries + 1

NonDecreasing(t) == \A a, b \in DOMAIN t : a <= b => t[a] <= t[b]

\* Contents of the log store: up to MaxEntries entries, oldest first; entries
\* may share a timestamp, and the message tells them apart.
Stores ==
    UNION { { [k \in 1..n |-> [ts |-> t[k], msg |-> k, stream |-> ReaderStreams[s[k]]]] :
                t \in {u \in [1..n -> RangeStart..(RangeEnd - 1)] : NonDecreasing(u)},
                s \in [1..n -> DOMAIN ReaderStreams] } : n \in 0..MaxEntries }

\* Page limits loki.Client is configured with (query_limit is at least 1).
Limits == {1, 2, 3}

\* The request that goes wrong in a call of QueryRange, if any.
Plans == {NoFault} \cup {[page |-> p, fault |-> f] : p \in 1..2, f \in Faults}

\* Chunk sizes up to one time unit more than the period.
ChunkSizes == 1..(MaxEntries + 1)

\* A log store is attached and no pruner runs.
ReaderInit ==
    /\ store \in Stores
    /\ limit \in Limits
    /\ order \in StreamOrders
    /\ rpc = "ready"
    /\ answer = NoAnswer
    /\ usage = NoUsage
    /\ dry = FALSE
    /\ skipTags = <<>>
    /\ lowerThreshold = 1
    /\ grafana = <<>>
    /\ archive = [n \in Range(DashNames) |-> Absent]
    /\ pc = "off"
    /\ cancelled = FALSE
    /\ runs = 0
    /\ all = <<>>
    /\ used = <<>>
    /\ fetched = -1
    /\ i = 0
    /\ deleted = <<>>
    /\ calls = <<>>
    /\ report = <<>>
    /\ lastErr = Nil

\* One call of QueryRange over the whole period.
QueryRangeCall ==
    /\ rpc = "ready"
    /\ \E plan \in Plans :
         LET r == QueryRange(store, limit, order, plan, RangeStart, RangeEnd)
         IN answer' = [plan |-> plan, err |-> r.err, logs |-> r.logs,
                       requests |-> r.requests, sizes |-> r.sizes, starts |-> r.starts]
    /\ rpc' = "queried"
    /\ UNCHANGED <<config, pruner, store, limit, order, usage>>

\* One call of UsedDashboards over the whole period, read in windows of chunkSize.
UsedDashboardsCall ==
    /\ rpc = "ready"
    /\ \E chunkSize \in ChunkSizes, failWindow \in 0..1 :
         LET q == queryLogsLoop(store, limit, order, failWindow, RangeStart, RangeEnd,
                                chunkSize, <<>>)
             u == UsedDashboards(Labels, [w \in 1..Len(q.windows) |-> Streams(q.windows[w])],
                                 IgnoredUsers, lowerThreshold)
         IN usage' = IF q.err # Nil
                     THEN [err |-> q.err, result |-> <<>>, windows |-> <<>>,
                           chunkSize |-> chunkSize, ranges |-> q.ranges]
                     ELSE [err |-> u.err, result |-> u.result, windows |-> q.windows,
                           chunkSize |-> chunkSize, ranges |-> q.ranges]
    /\ rpc' = "tallied"
    /\ UNCHANGED <<config, pruner, store, limit, order, answer>>

\* The caller of loki.Client reads the period once.
ReaderSpec == ReaderInit /\ [][QueryRangeCall]_vars

\* The caller of grafana.Client analyses the usage of the period once.
UsageSpec == ReaderInit /\ [][UsedDashboardsCall]_vars

\* ---------------------------------------------- the tally of fetched lines
\* Stream label sets of the lines queryLogs may hand to UsedDashboards: views
\* of d1 by two users, an anonymous view of d2 through the UI, a view of d2 by
\* an ignored user, a view of the d1 of another namespace, a line whose path
\* has another shape, a line without path label, and views of a dashboard
\* named dto through the API and through the UI.
TallyStreams ==
    << [path |-> ApiPath(Namespace, "d1"), uname |-> "alice"],
       [path |-> ApiPath(Namespace, "d1"), uname |-> "carol"],
       [path |-> DtoPath(Namespace, "d2")],
       [path |-> ApiPath(Namespace, "d2"), uname |-> "bot"],
       [path |-> ApiPath(OtherNamespace, "d1"), uname |-> "alice"],
       [path |-> <<"", "api", "dashboards", "uid", "d1">>, uname |-> "alice"],
       [uname |-> "alice"],
       [path |-> ApiPath(Namespace, "dto"), uname |-> "alice"],
       [path |-> DtoPath(Namespace, "dto"), uname |-> "alice"] >>

\* The lines of the period: up to MaxLines lines, the k-th at time k.
TallyLines ==
    UNION { { [k \in 1..n |-> NewLog(k, k, TallyStreams[s[k]])] :
                s \in [1..n -> DOMAIN TallyStreams] } : n \in 0..MaxLines }

\* queryLogs has returned the lines of the period in one window.
TallyInit ==
    /\ store = <<>>
    /\ limit = 1
    /\ order = "listed"
    /\ rpc = "fetched"
    /\ answer = NoAnswer
    /\ usage \in {[err |-> Nil, result |-> <<>>, windows |-> <<lines>>, chunkSize |-> 0] :
                    lines \in TallyLines}
    /\ dry = FALSE
    /\ skipTags = <<>>
    /\ lowerThreshold = 1
    /\ grafana = <<>>
    /\ archive = [n \in Range(DashNames) |-> Absent]
    /\ pc = "off"
    /\ cancelled = FALSE
    /\ runs = 0
    /\ all = <<>>
    /\ used = <<>>
    /\ fetched = -1
    /\ i = 0
    /\ deleted = <<>>
    /\ calls = <<>>
    /\ report = <<>>
    /\ lastErr = Nil

\* UsedDashboards from the return of queryLogs on: the lower threshold, then
\* processLogs.
UsedDashboardsTally ==
    /\ rpc = "fetched"
    /\ LET u == UsedDashboards(Labels,
                               [w \in 1..Len(usage.windows) |-> Streams(usage.windows[w])],
                               IgnoredUsers, lowerThreshold)
       IN usage' = [usage EXCEPT !.err = u.err, !.result = u.result]
    /\ rpc' = "tallied"
    /\ UNCHANGED <<config, pruner, store, limit, order, answer>>

\* The caller of grafana.Client tallies the fetched lines of the period once.
TallySpec == TallyInit /\ [][UsedDashboardsTally]_vars

\* ------------------------------------------------ the listing on its own
\* Listings of the pruned namespace of up to MaxListed dashboards.
LongListings ==
    UNION { { [k \in 1..n |-> Dashboard(DashNames[k], Namespace, f[k][2], f[k][1])] :
                f \in [1..n -> ManagedByChoices \X DashTagChoices] } : n \in 0..MaxListed }

\* prune has been entered for the first time.
ListingInit ==
    /\ ReaderOff
    /\ dry = FALSE
    /\ skipTags = <<>>
    /\ lowerThreshold = 1
    /\ grafana \in {<<Foreign>> \o l : l \in LongListings}
    /\ archive = [n \in Range(DashNames) |-> Absent]
    /\ pc = "list"
    /\ cancelled = FALSE
    /\ runs = 1
    /\ all = <<>>
    /\ used = <<>>
    /\ fetched = -1
    /\ i = 0
    /\ deleted = <<>>
    /\ calls = <<>>
    /\ report = <<>>
    /\ lastErr = Nil

\* One call of AllDashboards; calls keeps the list requests it made, each
\* with the token it carried and the page it was answered with.
AllDashboardsCall ==
    /\ pc = "list"
    /\ \E cap \in 1..MaxPage, failPage \in 0..MaxPage :
         LET r == allDashboardsLoop(ListingOf(Namespace), cap, failPage, 0, <<>>, <<>>)
         IN /\ all' = r.dashboards
            /\ calls' = [k \in 1..Len(r.sent) |->
                            [op |-> "list", token |-> r.sent[k].token, page |-> r.sent[k].page]]
            /\ lastErr' = r.err
    /\ pc' = "listed"
    /\ UNCHANGED <<reader, config, grafana, archive, cancelled, runs, used, fetched, i, deleted,
                   report>>

\* The pruner lists the dashboards of its namespace once.
ListingSpec == ListingInit /\ [][AllDashboardsCall]_vars

\* ------------------------------------------------- the backup on its own
BackupPaths == {BackupPath(ns, "d1") : ns \in {Namespace, OtherNamespace}}

\* Definitions of a dashboard handed to BackUpDashboard.
Definitions == {<<"v1">>, <<"v2">>}

BackupFaults == {"none", "get", "write"}

\* The repository holds a backup file for some of the paths, or for none.
BackupInit ==
    /\ ReaderOff
    /\ dry = FALSE
    /\ skipTags = <<>>
    /\ lowerThreshold = 1
    /\ grafana = <<>>
    /\ archive \in [BackupPaths -> {Absent, [sha |-> 1, content |-> <<"v1">>]}]
    /\ pc = "off"
    /\ cancelled = FALSE
    /\ runs = 0
    /\ all = <<>>
    /\ used = <<>>
    /\ fetched = -1
    /\ i = 0
    /\ deleted = <<>>
    /\ calls = <<>>
    /\ report = <<>>
    /\ lastErr = Nil

\* One call of BackUpDashboard; calls keeps the requests of all calls, report
\* one line per call.
BackUpDashboardCall ==
    /\ Len(report) < MaxBackups
    /\ \E ns \in {Namespace, OtherNamespace}, dashboardJSON \in Definitions, fault \in BackupFaults :
         LET r == BackUpDashboard(archive, ns, "d1", dashboardJSON, fault)
         IN /\ archive' = r.repo
            /\ calls' = calls \o r.requests
            /\ report' = Append(report, [path |-> BackupPath(ns, "d1"), content |-> dashboardJSON,
                                         fault |-> fault, first |-> Len(calls) + 1,
                                         err |-> r.err])
            /\ lastErr' = r.err
    /\ UNCHANGED <<reader, config, grafana, pc, cancelled, runs, all, used, fetched, i, deleted>>

\* A caller backs up dashboards, one call after the other.
BackupSpec == BackupInit /\ [][BackUpDashboardCall]_vars

\* ------------------------------------------ one pruner for each namespace
\* Config.Initialise makes one pruner for each namespace that has a token.
\* The pruners share the dashboard service, the backup repository and the
\* context; each runs Start on its own, so their steps interleave.  Every
\* variable of the pruner holds one value for each namespace.
FleetNamespaces == {Namespace, OtherNamespace}

\* The dashboards the service may hold: the names d1 and d2 in either namespace.
FleetDashboards ==
    << Dashboard("d1", Namespace, <<>>, <<>>), Dashboard("d1", OtherNamespace, <<>>, <<>>),
       Dashboard("d2", OtherNamespace, <<>>, <<>>), Dashboard("d2", Namespace, <<>>, <<>>) >>

FleetPaths == {BackupPath(d.Namespace, d.Name) : d \in Range(FleetDashboards)}

\* What UsedDashboards may answer: a view of d1 in the one or in the other namespace.
FleetUsages ==
    { << [name |-> "d1", namespace |-> ns, reads |-> 1, users |-> 1] >> : ns \in FleetNamespaces }

FleetInit ==
    /\ ReaderOff
    /\ dry = FALSE
    /\ skipTags = <<>>
    /\ lowerThreshold = 1
    /\ grafana \in {SelectSeq(FleetDashboards, LAMBDA d : d \in S) : S \in SUBSET Range(FleetDashboards)}
    /\ archive = [path \in FleetPaths |-> Absent]
    /\ pc = [ns \in FleetNamespaces |-> "start"]
    /\ cancelled = FALSE
    /\ runs = [ns \in FleetNamespaces |-> 0]
    /\ all = [ns \in FleetNamespaces |-> <<>>]
    /\ used = [ns \in FleetNamespaces |-> <<>>]
    /\ fetched = -1
    /\ i = [ns \in FleetNamespaces |-> 0]
    /\ deleted = [ns \in FleetNamespaces |-> <<>>]
    /\ calls = [ns \in FleetNamespaces |-> <<>>]
    /\ report = <<>>
    /\ lastErr = [ns \in FleetNamespaces |-> Nil]

FleetBeginRun(ns) ==
    /\ pc' = [pc EXCEPT ![ns] = "list"]
    /\ runs' = [runs EXCEPT ![ns] = @ + 1]
    /\ all' = [all EXCEPT ![ns] = <<>>]
    /\ used' = [used EXCEPT ![ns] = <<>>]
    /\ i' = [i EXCEPT ![ns] = 0]
    /\ deleted' = [deleted EXCEPT ![ns] = <<>>]
    /\ calls' = [calls EXCEPT ![ns] = <<>>]
    /\ lastErr' = [lastErr EXCEPT ![ns] = Nil]
    /\ UNCHANGED <<reader, config, grafana, archive, cancelled, fetched, report>>

FleetStart(ns) == pc[ns] = "start" /\ FleetBeginRun(ns)

FleetTick(ns) == pc[ns] = "idle" /\ runs[ns] < MaxRuns /\ FleetBeginRun(ns)

FleetStop(ns) ==
    /\ pc[ns] = "idle"
    /\ cancelled
    /\ pc' = [pc EXCEPT ![ns] = "stopped"]
    /\ UNCHANGED <<reader, config, grafana, archive, cancelled, runs, run, lastErr>>

FleetCancel ==
    /\ ~cancelled
    /\ cancelled' = TRUE
    /\ UNCHANGED <<reader, config, grafana, archive, pc, runs, run, lastErr>>

\* AllDashboards(ctx, d.namespace)
FleetAllDashboards(ns) ==
    /\ pc[ns] = "list"
    /\ \E cap \in 1..MaxPage : all' = [all EXCEPT ![ns] = AllDashboards(ListingOf(ns), cap)]
    /\ pc' = [pc EXCEPT ![ns] = "usage"]
    /\ UNCHANGED <<reader, config, grafana, archive, cancelled, runs, used, fetched, i, deleted,
                   calls, report, lastErr>>

FleetUsedDashboards(ns) ==
    /\ pc[ns] = "usage"
    /\ \E usedReads \in FleetUsages : used' = [used EXCEPT ![ns] = usedReads]
    /\ i' = [i EXCEPT ![ns] = 1]
    /\ pc' = [pc EXCEPT ![ns] = "loop"]
    /\ UNCHANGED <<reader, config, grafana, archive, cancelled, runs, all, fetched, deleted,
                   calls, report, lastErr>>

FleetCurrent(ns) == all[ns][i[ns]]

FleetDecision(ns) == decide(FleetCurrent(ns), usedMap(used[ns]), skipTags, dry)

FleetSkip(ns) ==
    /\ pc[ns] = "loop"
    /\ i[ns] <= Len(all[ns])
    /\ FleetDecision(ns).outcome # "delete"
    /\ i' = [i EXCEPT ![ns] = @ + 1]
    /\ UNCHANGED <<reader, config, grafana, archive, pc, cancelled, runs, all, used, fetched,
                   deleted, calls, report, lastErr>>

\* DeleteDashboard(ctx, dashboard.Namespace, dashboard.Name, dashboard.Spec)
FleetDeleteDashboard(ns) ==
    /\ pc[ns] = "loop"
    /\ i[ns] <= Len(all[ns])
    /\ FleetDecision(ns).outcome = "delete"
    /\ pc' = [pc EXCEPT ![ns] = "backup"]
    /\ UNCHANGED <<reader, config, grafana, archive, cancelled, runs, run, lastErr>>

FleetBackUpDashboard(ns) ==
    /\ pc[ns] = "backup"
    /\ LET d == FleetCurrent(ns)
       IN /\ archive' = BackUpDashboard(archive, d.Namespace, d.Name, d.Spec, "none").repo
          /\ calls' = [calls EXCEPT ![ns] = Append(@, [op |-> "backup", key |-> Key(d)])]
    /\ pc' = [pc EXCEPT ![ns] = "delete"]
    /\ UNCHANGED <<reader, config, grafana, cancelled, runs, all, used, fetched, i, deleted,
                   report, lastErr>>

FleetDelete(ns) ==
    /\ pc[ns] = "delete"
    /\ LET d == FleetCurrent(ns)
       IN /\ grafana' = Without(grafana, Key(d))
          /\ calls' = [calls EXCEPT ![ns] = Append(@, [op |-> "delete", key |-> Key(d)])]
          /\ deleted' = [deleted EXCEPT ![ns] = Append(@, Key(d))]
    /\ i' = [i EXCEPT ![ns] = @ + 1]
    /\ pc' = [pc EXCEPT ![ns] = "loop"]
    /\ UNCHANGED <<reader, config, archive, cancelled, runs, all, used, fetched, report, lastErr>>

\* A request of the run fails: prune returns the error to tick.
FleetAbort(ns) ==
    /\ pc[ns] \in {"list", "usage", "backup", "delete"}
    /\ pc' = [pc EXCEPT ![ns] = "idle"]
    /\ lastErr' = [lastErr EXCEPT ![ns] = "request failed"]
    /\ UNCHANGED <<reader, config, grafana, archive, cancelled, runs, run>>

FleetFinish(ns) ==
    /\ pc[ns] = "loop"
    /\ i[ns] > Len(all[ns])
    /\ pc' = [pc EXCEPT ![ns] = "idle"]
    /\ UNCHANGED <<reader, config, grafana, archive, cancelled, runs, run, lastErr>>

FleetNext ==
    \/ FleetCancel
    \/ \E ns \in FleetNamespaces :
          \/ FleetStart(ns)
          \/ FleetTick(ns)
          \/ FleetStop(ns)
          \/ FleetAllDashboards(ns)
          \/ FleetUsedDashboards(ns)
          \/ FleetSkip(ns)
          \/ FleetDeleteDashboard(ns)
          \/ FleetBackUpDashboard(ns)
          \/ FleetDelete(ns)
          \/ FleetAbort(ns)
          \/ FleetFinish(ns)

FleetSpec == FleetInit /\ [][FleetNext]_vars

\* ------------------------------------------------------------------- claims
RunEnded == pc \in {"idle", "stopped"}

BackupInFlight == pc \in {"backup_get", "backup_create", "backup_update"}

IsWrite(c) == c.op \in {"create", "update"}

\* C1: in a live run the DELETE request for a dashboard is sent only after the
\* backup of that same dashboard succeeded in the same run: while the request
\* is in flight the last answered call is a successful write of that
\* dashboard, every answered DELETE directly follows such a write, and the
\* backup repository holds the definition of every deleted dashboard.
C1_BackupPrecedesDelete ==
    /\ pc = "delete" =>
          /\ Len(calls) >= 1
          /\ IsWrite(calls[Len(calls)])
          /\ calls[Len(calls)].ok
          /\ calls[Len(calls)].key = Key(all[i])
          /\ archive[all[i].Name].sha > 0
          /\ archive[all[i].Name].content = all[i].Spec
    /\ \A k \in 1..Len(calls) :
          calls[k].op = "delete" =>
             /\ k > 1
             /\ IsWrite(calls[k - 1])
             /\ calls[k - 1].ok
             /\ calls[k - 1].key = calls[k].key
    /\ \A k \in 1..Len(deleted) : archive[deleted[k].name].sha > 0

C1_Witness ==
    \E k \in 1..Len(calls) : calls[k].op = "delete" /\ calls[k].ok

\* C2: when a step of the backup of a dashboard fails (the existence check
\* with anything but "not found", the create or the update), that failed call
\* is the last call of the run: no DELETE is sent for the dashboard, no later
\* dashboard is backed up or deleted, and the run has ended with an error.
C2_BackupFailureAborts ==
    \A k \in 1..Len(calls) :
       (calls[k].op \in {"get", "create", "update"} /\ ~calls[k].ok) =>
          /\ k = Len(calls)
          /\ RunEnded
          /\ lastErr \in {"checking if file exists", "creating file", "updating file"}
          /\ calls[k].key = Key(all[i])
          /\ \A j \in i..Len(all) : all[j] \in Range(grafana)
          /\ \A j \in 1..Len(deleted) : deleted[j] # calls[k].key

C2_Witness ==
    /\ lastErr = "updating file"
    /\ i < Len(all)
    /\ ~Provisioned(all[i + 1])
    /\ Key(all[i + 1]) \notin usedMap(used)

\* C3: a pruner in dry-run mode never asks the backup repository anything and
\* never sends a DELETE request, in any run: no such call is in flight or
\* answered, nothing is recorded as deleted and the repository stays empty.
C3_DryRunIsInert ==
    dry =>
       /\ ~BackupInFlight
       /\ pc # "delete"
       /\ calls = <<>>
       /\ deleted = <<>>
       /\ \A n \in DOMAIN archive : archive[n] = Absent

C3_Witness ==
    /\ dry
    /\ runs = MaxRuns
    /\ RunEnded
    /\ \E k \in 1..Len(report) : report[k].outcome = "dry_run"

UsedKeys == {[name |-> r.name, namespace |-> r.namespace] : r \in Range(used)}

\* The dashboard for which a backup or DELETE call is in flight, if any.
InFlightKeys == IF BackupInFlight \/ pc = "delete" THEN {Key(all[i])} ELSE {}

\* The dashboards the pruner called the backup repository or the dashboard
\* service for in this run.
TouchedKeys == {calls[k].key : k \in 1..Len(calls)} \cup InFlightKeys \cup Range(deleted)

\* C4: a dashboard whose (namespace, name) key has a usage record in the
\* current run is neither backed up nor deleted in that run, and it is still
\* held by the dashboard service.
C4_UsedNeverTouched ==
    \A d \in Range(all) :
       Key(d) \in UsedKeys => (Key(d) \notin TouchedKeys /\ d \in Range(grafana))

C4_Witness ==
    /\ ~dry
    /\ RunEnded
    /\ lastErr = Nil
    /\ deleted # <<>>
    /\ \E k \in 1..Len(report) : report[k].outcome = "used"

\* C5: a dashboard that carries the managed-by marker is never deleted: no
\* backup or DELETE call is made for it and the dashboard service keeps it,
\* whatever its usage, its tags and the dry-run setting.
C5_ProvisionedNeverDeleted ==
    \A d \in Range(all) :
       d.ManagedBy # <<>> => (Key(d) \notin TouchedKeys /\ d \in Range(grafana))

C5_Witness ==
    /\ ~dry
    /\ RunEnded
    /\ lastErr = Nil
    /\ deleted # <<>>
    /\ \E k \in 1..Len(report) : report[k].outcome = "provisioned"

SkipTagged(d) == \E a \in 1..Len(d.Tags) : \E b \in 1..Len(skipTags) : d.Tags[a] = skipTags[b]

\* C6: a dashboard with at least one tag exactly equal to a tag of the skip
\* list is never deleted, also when it has no usage record: no backup or
\* DELETE call is made for it and the dashboard service keeps it.
C6_SkipTaggedNeverDeleted ==
    \A d \in Range(all) :
       SkipTagged(d) => (Key(d) \notin TouchedKeys /\ d \in Range(grafana))

C6_Witness ==
    /\ ~dry
    /\ RunEnded
    /\ lastErr = Nil
    /\ deleted # <<>>
    /\ \E k \in 1..Len(report) :
          /\ report[k].outcome = "skip_tag"
          /\ report[k].tag = "tmp"
          /\ Key(all[k]) \notin UsedKeys

ConfiguredThreshold == IF lowerThreshold = 0 THEN DefaultLowerThreshold ELSE lowerThreshold

\* C7: when the number of log entries fetched over all windows is below the
\* lower threshold, UsedDashboards returns an error and no usage record, and
\* the run ends there: it makes no backup or DELETE call and deletes nothing.
C7_BelowThresholdAborts ==
    (fetched >= 0 /\ fetched < ConfiguredThreshold) =>
       /\ lastErr = "found fewer logs than the lower threshold"
       /\ used = <<>>
       /\ RunEnded
       /\ calls = <<>>
       /\ deleted = <<>>
       /\ \A d \in Range(all) : d \in Range(grafana)

C7_Witness ==
    /\ lowerThreshold = 0
    /\ fetched = MaxLogs
    /\ ~dry
    /\ lastErr = "found fewer logs than the lower threshold"
    /\ \E d \in Range(all) : d.ManagedBy = <<>> /\ ~SkipTagged(d)

\* The listed dashboards that are neither used, nor provisioned, nor skip-tagged.
Candidates == {d \in Range(all) : Key(d) \notin UsedKeys /\ d.ManagedBy = <<>> /\ ~SkipTagged(d)}

RunSucceeded == RunEnded /\ runs > 0 /\ lastErr = Nil

\* C8: when a live run ends without error, the dashboards it deleted are
\* exactly the listed dashboards that are neither used, nor provisioned, nor
\* skip-tagged; each was deleted once, by one existence check, one successful
\* write and one successful DELETE in this order, and the dashboard service
\* holds the other listed dashboards and none of the deleted ones.
C8_DeletesExactlyCandidates ==
    (RunSucceeded /\ ~dry) =>
       /\ Range(deleted) = {Key(d) : d \in Candidates}
       /\ Len(deleted) = Cardinality(Candidates)
       /\ Len(calls) = 3 * Len(deleted)
       /\ \A j \in 1..Len(deleted) :
             /\ calls[3 * j - 2] = [op |-> "get", key |-> deleted[j], ok |-> TRUE]
             /\ IsWrite(calls[3 * j - 1])
             /\ calls[3 * j - 1].key = deleted[j]
             /\ calls[3 * j - 1].ok
             /\ calls[3 * j] = [op |-> "delete", key |-> deleted[j], ok |-> TRUE]
       /\ \A d \in Range(all) : (d \in Range(grafana)) <=> (d \notin Candidates)

C8_Witness ==
    /\ RunSucceeded
    /\ ~dry
    /\ Len(deleted) = 1
    /\ Len(all) = 2
    /\ skipTags = <<"keep", "tmp">>
    /\ \E k \in 1..Len(all) : all[k].Tags = <<"Keep">> /\ Key(all[k]) \in Range(deleted)

\* The outcome the fixed priority gives a dashboard.
ExpectedOutcome(d) ==
    IF Key(d) \in UsedKeys THEN "used"
    ELSE IF d.ManagedBy # <<>> THEN "provisioned"
    ELSE IF SkipTagged(d) THEN "skip_tag"
    ELSE IF dry THEN "dry_run"
    ELSE "delete"

\* The lines of the report that are about a dashboard.
Outcomes == SelectSeq(report, LAMBDA l : l.outcome # "finished")

\* C9: every listed dashboard the loop has reached has exactly one outcome,
\* the k-th outcome is that of the k-th listed dashboard, and it is chosen by
\* the priority used, provisioned, skip tag, deletion candidate; a skip-tag
\* outcome names a tag that is both on the dashboard and in the skip list.
C9_OutcomeByPriority ==
    /\ pc = "loop" => Len(Outcomes) = i - 1
    /\ (BackupInFlight \/ pc = "delete") => Len(Outcomes) = i
    /\ Len(Outcomes) <= Len(all)
    /\ \A k \in 1..Len(Outcomes) :
          /\ Outcomes[k].name = all[k].Name
          /\ Outcomes[k].outcome = ExpectedOutcome(all[k])
          /\ Outcomes[k].outcome = "skip_tag" =>
                /\ \E a \in 1..Len(all[k].Tags) : all[k].Tags[a] = Outcomes[k].tag
                /\ \E b \in 1..Len(skipTags) : skipTags[b] = Outcomes[k].tag

C9_Witness ==
    /\ \E k \in 1..Len(Outcomes) :
          /\ Outcomes[k].outcome = "used"
          /\ all[k].ManagedBy # <<>>
          /\ SkipTagged(all[k])
    /\ \E k \in 1..Len(Outcomes) :
          /\ Outcomes[k].outcome = "provisioned"
          /\ SkipTagged(all[k])

DeleteFailed == lastErr \in {"unexpected status code", "response body claims failure"}

\* What holds of the rest of the run once a DELETE request has failed: the
\* failed answer is the last call, the run has ended with the error, the
\* dashboard is not recorded as deleted, and every dashboard listed after it is
\* still held by the dashboard service.
DeleteFailureAborts ==
    /\ RunEnded
    /\ calls[Len(calls)].op = "delete"
    /\ calls[Len(calls)].key = Key(all[i])
    /\ ~calls[Len(calls)].ok
    /\ \A k \in 1..(Len(calls) - 1) : calls[k].ok
    /\ Key(all[i]) \notin Range(deleted)
    /\ \A j \in (i + 1)..Len(all) : all[j] \in Range(grafana) /\ Key(all[j]) \notin TouchedKeys

\* C10 as stated: after a failed DELETE the run aborts and that dashboard and
\* every not yet processed dashboard are all still held by the dashboard service.
C10_Original ==
    DeleteFailed => (DeleteFailureAborts /\ all[i] \in Range(grafana))

\* C10, amended: after a failed DELETE the run aborts with an error, no call
\* is made for a later dashboard and all later dashboards are kept; the failed
\* dashboard is not recorded as deleted, and it is still held by the
\* dashboard service unless the answer was a 200 whose body does not say
\* "Success", after which it may be gone.
C10_DeleteFailureAborts ==
    DeleteFailed =>
       /\ DeleteFailureAborts
       /\ lastErr = "unexpected status code" => all[i] \in Range(grafana)

C10_Witness ==
    /\ lastErr = "unexpected status code"
    /\ i < Len(all)
    /\ all[i + 1] \in Candidates

\* A step that leaves Idle for a run: a new run of prune is entered.
NewRun ==
    /\ pc' = "list"
    /\ runs' = runs + 1
    /\ lastErr' = Nil
    /\ calls' = <<>>
    /\ deleted' = <<>>

\* C11: a run that ends with an error (of the listing, the usage analysis, the
\* backup or the deletion) leaves the pruner in Idle: it is stopped only by
\* cancellation, the timer tick is still taken in Idle, and the step that
\* leaves Idle after a failed run enters a new run.
C11_FailedRunKeepsSchedule ==
    /\ [](lastErr # Nil => RunEnded)
    /\ []((lastErr # Nil /\ ~cancelled) => pc = "idle")
    /\ []((lastErr # Nil /\ pc = "idle" /\ runs < MaxRuns) => ENABLED Tick)
    /\ [][(lastErr # Nil /\ pc = "idle" /\ pc' \notin {"idle", "stopped"}) => NewRun]_vars

\* A second run has begun although the first one failed at the DELETE request:
\* the definition of a dashboard is archived and the dashboard is still held.
C11_Witness ==
    /\ runs = 2
    /\ pc = "list"
    /\ \E d \in Range(grafana) : d.Namespace = Namespace /\ archive[d.Name].sha > 0

\* C12: Start enters its first run of prune at once, whether or not the
\* context is already cancelled: no run has been made exactly while Start is
\* at its beginning, the first run is entered from there, the pruner stops only
\* after it, and every later run is entered from Idle by a timer tick.
C12_ImmediateFirstRun ==
    /\ [](pc = "start" <=> runs = 0)
    /\ [](pc = "start" => ENABLED Start)
    /\ [](pc = "stopped" => runs >= 1)
    /\ [][pc = "start" /\ pc' # pc => pc' = "list" /\ runs' = 1]_vars
    /\ [][runs' # runs => /\ runs' = runs + 1
                          /\ pc' = "list"
                          /\ pc = (IF runs = 0 THEN "start" ELSE "idle")]_vars

C12_Witness ==
    /\ cancelled
    /\ runs = 1
    /\ pc = "list"

\* ------------------------------------------------------ claims on QueryRange
Queried == rpc = "queried"

\* A request of the call went wrong / none did.
RequestFailed == Queried /\ answer.plan.page >= 1 /\ answer.requests = answer.plan.page
NoRequestFailed == Queried /\ ~RequestFailed

\* Positions in the store of the entries with timestamp T; the message of an
\* entry is its position.
AtTimestamp(T) == {k \in 1..Len(store) : store[k].ts = T}

ReturnedMessages == {answer.logs[j].message : j \in 1..Len(answer.logs)}

Timestamps == RangeStart..(RangeEnd - 1)

\* C13: when more entries than limit share one timestamp and no request goes
\* wrong, QueryRange returns without error; of the k entries at that timestamp
\* it returns at most limit, the oldest stored ones, and at least k - limit of
\* them are absent from its result.
C13_SharedTimestampOverflow ==
    NoRequestFailed =>
       \A T \in Timestamps :
          Cardinality(AtTimestamp(T)) > limit =>
             /\ answer.err = Nil
             /\ Cardinality(AtTimestamp(T) \cap ReturnedMessages) <= limit
             /\ Cardinality(AtTimestamp(T) \ ReturnedMessages)
                   >= Cardinality(AtTimestamp(T)) - limit
             /\ \A a \in AtTimestamp(T) \cap ReturnedMessages :
                   \A b \in AtTimestamp(T) : b < a => b \in ReturnedMessages

C13_Witness ==
    /\ NoRequestFailed
    /\ limit = 2
    /\ \E T \in Timestamps :
          /\ Cardinality(AtTimestamp(T)) = 3
          /\ Cardinality(AtTimestamp(T) \cap ReturnedMessages) = 2

\* The entries of the store as the logs QueryRange builds from them.
StoredLogs == [k \in 1..Len(store) |-> NewLog(store[k].ts, k, store[k].stream)]

DistinctTimestamps == \A a, b \in 1..Len(store) : store[a].ts = store[b].ts => a = b

\* The place in answer.logs where page p begins.
RECURSIVE PageStart(_)
PageStart(p) == IF p = 1 THEN 1 ELSE PageStart(p - 1) + answer.sizes[p - 1]

\* The page a returned log came in.
PageOf(j) == CHOOSE p \in 1..Len(answer.sizes) :
                PageStart(p) <= j /\ j < PageStart(p) + answer.sizes[p]

\* Every page came back with its logs in ascending timestamp order.
PagesAscending ==
    \A j, k \in 1..Len(answer.logs) :
       (j < k /\ PageOf(j) = PageOf(k)) => answer.logs[j].timestamp <= answer.logs[k].timestamp

Ceil(n, d) == (n + d - 1) \div d

\* The store hands out its N >= 1 entries, no two of the same timestamp, in
\* pages of ascending order, and no request goes wrong.
SmoothPaging ==
    /\ NoRequestFailed
    /\ Len(store) >= 1
    /\ DistinctTimestamps
    /\ PagesAscending

Ascending(logs) ==
    \A j, k \in 1..Len(logs) : j < k => logs[j].timestamp <= logs[k].timestamp

\* The streams of the logs that came in page p.
StreamsOfPage(p) == {answer.logs[j].stream : j \in {n \in 1..Len(answer.logs) : PageOf(n) = p}}

OneStreamPerPage == \A p \in 1..Len(answer.sizes) : Cardinality(StreamsOfPage(p)) <= 1

\* C15 as stated: the sequence returned by QueryRange is in ascending
\* timestamp order, whatever the streams of a page and the number of pages.
C15_Original ==
    NoRequestFailed => Ascending(answer.logs)

\* C15, amended: the sequence returned by QueryRange is the concatenation of
\* its pages; within a page the logs of one stream are adjacent and in
\* ascending timestamp order (ties allowed), and the page lists stream after
\* stream in the order of the response; the whole sequence is in ascending
\* timestamp order when every page holds logs of one stream only, also when
\* it spans several pages.
C15_AscendingPerStream ==
    NoRequestFailed =>
       /\ \A j, k \in 1..Len(answer.logs) :
             (j < k /\ PageOf(j) = PageOf(k) /\ answer.logs[j].stream = answer.logs[k].stream) =>
                /\ answer.logs[j].timestamp <= answer.logs[k].timestamp
                /\ \A m \in j..k : answer.logs[m].stream = answer.logs[j].stream
       /\ OneStreamPerPage => Ascending(answer.logs)

C15_Witness ==
    /\ NoRequestFailed
    /\ OneStreamPerPage
    /\ answer.requests >= 2
    /\ \E j, k \in 1..Len(answer.logs) :
          /\ j < k
          /\ answer.logs[j].stream # answer.logs[k].stream
    /\ \E j, k \in 1..Len(answer.logs) :
          /\ j < k
          /\ PageOf(j) = PageOf(k)
          /\ answer.logs[j].timestamp < answer.logs[k].timestamp

\* The error queryRangePage returns for what went wrong with the request.
ErrorOf(fault) ==
    CASE fault = "do" -> "executing request"
      [] fault = "read" -> "reading response body"
      [] fault = "status_code" -> "unexpected status code"
      [] fault = "unmarshal" -> "unmarshalling response"
      [] fault = "status" -> "query failed with status"
      [] fault = "value_format" -> "invalid value format in Loki response"
      [] fault = "timestamp" -> "parsing timestamp"

\* C16: when a page request of a QueryRange call goes wrong (transport error,
\* non-200 status, body that is not JSON, status other than "success", value
\* not made of two fields, timestamp that does not parse), on the first page
\* or on a later one, the call returns the error of that request and no
\* entries, and it issues no further request; without such a failure it
\* returns no error.
C16_NoPartialResults ==
    /\ RequestFailed =>
          /\ answer.err = ErrorOf(answer.plan.fault)
          /\ answer.logs = <<>>
          /\ Len(answer.sizes) = answer.plan.page - 1
    /\ NoRequestFailed => answer.err = Nil

\* The second request fails after a first page full of entries.
C16_Witness ==
    /\ RequestFailed
    /\ answer.plan = [page |-> 2, fault |-> "timestamp"]
    /\ answer.sizes = <<2>>
    /\ answer.logs = <<>>

\* C17: when the first page has fewer entries than limit and no request goes
\* wrong, QueryRange issues exactly one request and returns exactly the
\* entries of that page, each once: with every stored entry in the period,
\* these are all the entries of the store.
C17_SinglePage ==
    (NoRequestFailed /\ Len(store) < limit) =>
       /\ answer.err = Nil
       /\ answer.requests = 1
       /\ answer.sizes = <<Len(store)>>
       /\ Len(answer.logs) = Len(store)
       /\ \A k \in 1..Len(store) : \E j \in 1..Len(answer.logs) : answer.logs[j] = StoredLogs[k]

C17_Witness ==
    /\ NoRequestFailed
    /\ limit = 3
    /\ Len(answer.logs) = 2
    /\ answer.requests = 1
    /\ answer.logs[1].timestamp > answer.logs[2].timestamp

\* ------------------------------------------------- claims on UsedDashboards
Tallied == rpc = "tallied"

\* Every window of the period was read.
Fetched == Tallied /\ usage.err # "querying loki"

\* The tally of one QueryRange over the whole period, not cut into windows.
Unchunked ==
    UsedDashboards(Labels,
                   <<Streams(QueryRange(store, limit, order, NoFault, RangeStart, RangeEnd).logs)>>,
                   IgnoredUsers, lowerThreshold)

\* Every response the store can give to a request within the period lists its
\* entries in ascending timestamp order.
ResponsesAscending ==
    \A start \in Timestamps : \A end \in (start + 1)..RangeEnd :
       Ascending(queryRangePage(Response(store, start, end, limit, order, "none")).logs)

FetchedLines == queryLogs(usage.windows)

Lines == 1..Len(FetchedLines)

\* The user name of a fetched line ("" when the line has none).
LineUser(j) ==
    IF "uname" \in DOMAIN FetchedLines[j].stream THEN FetchedLines[j].stream.uname ELSE ""

\* The dashboard a fetched line is about, read off the namespace and name
\* segments of its path.
LineDashboard(j) ==
    [name |-> FetchedLines[j].stream.path[8], namespace |-> FetchedLines[j].stream.path[6]]

IgnoredLine(j) ==
    LineUser(j) # "" /\ \E k \in 1..Len(IgnoredUsers) : IgnoredUsers[k] = LineUser(j)

AnonymousLine(j) == LineUser(j) = ""

LinesOf(d) == {j \in Lines : LineDashboard(j) = d}

RecordsOf(d) == {k \in 1..Len(usage.result) : ReadsKey(usage.result[k]) = d}

DashboardsRead == {LineDashboard(j) : j \in Lines}

UsageReturned == Tallied /\ usage.err = Nil

\* C19: the lines of ignored users add nothing to any record: the reads of a
\* record are the lines of its dashboard by other readers, its unique users
\* are at most the user names on those lines and never an ignored name, and a
\* dashboard read by ignored users only has no record.
C19_IgnoredUsersAddNothing ==
    UsageReturned =>
       /\ \A k \in 1..Len(usage.result) :
             LET d == ReadsKey(usage.result[k])
                 others == {j \in LinesOf(d) : ~IgnoredLine(j)}
             IN /\ usage.result[k].reads = Cardinality(others)
                /\ usage.result[k].users <= Cardinality({LineUser(j) : j \in others} \ {""})
       /\ \A d \in DashboardsRead :
             (\A j \in LinesOf(d) : IgnoredLine(j)) => RecordsOf(d) = {}

\* A dashboard read by an ignored user only is absent from a result that
\* holds the record of another dashboard.
C19_Witness ==
    /\ UsageReturned
    /\ Len(usage.result) = 1
    /\ Len(FetchedLines) = 3
    /\ \E j \in Lines : IgnoredLine(j) /\ RecordsOf(LineDashboard(j)) = {}

C21_UsersAtMostReads ==
    UsageReturned =>
       \A k \in 1..Len(usage.result) : usage.result[k].users <= usage.result[k].reads

\* A dashboard read three times by two users.
C21_Witness ==
    /\ UsageReturned
    /\ \E k \in 1..Len(usage.result) :
          usage.result[k].users = 2 /\ usage.result[k].reads = 3

\* A line counts when its user is not ignored.
CountedLines(d) == {j \in LinesOf(d) : ~IgnoredLine(j)}

\* C22: the result holds exactly one record for each (namespace, name) with
\* at least one counted line and no other record, ordered by name and, for
\* equal names, by namespace.
C22_OneRecordPerKeySorted ==
    UsageReturned =>
       /\ \A d \in DashboardsRead :
             Cardinality(RecordsOf(d)) = IF CountedLines(d) # {} THEN 1 ELSE 0
       /\ \A k \in 1..Len(usage.result) : ReadsKey(usage.result[k]) \in DashboardsRead
       /\ \A a, b \in 1..Len(usage.result) :
             a < b =>
                \/ StrLess(usage.result[a].name, usage.result[b].name)
                \/ /\ usage.result[a].name = usage.result[b].name
                   /\ StrLess(usage.result[a].namespace, usage.result[b].namespace)

\* Three dashboards are read in an order that is not the order of the result:
\* two share the name d1, and d2 of the first namespace follows both.
C22_Witness ==
    /\ UsageReturned
    /\ Len(usage.result) = 3
    /\ LineDashboard(1) = [name |-> "d2", namespace |-> Namespace]
    /\ LineDashboard(2) = [name |-> "d1", namespace |-> OtherNamespace]
    /\ usage.result[2] = [name |-> "d1", namespace |-> OtherNamespace, reads |-> 1, users |-> 1]
    /\ usage.result[3].name = "d2"

\* A fetched line without path label, or whose path is not that of a
\* dashboard of some namespace, with or without the /dto suffix.
NoPath(j) == "path" \notin DOMAIN FetchedLines[j].stream

Names == Range(DashNames) \cup {"dto"}
Namespaces == {Namespace, OtherNamespace}

OtherShape(j) ==
    /\ ~NoPath(j)
    /\ \A ns \in Namespaces, n \in Names :
          FetchedLines[j].stream.path \notin {ApiPath(ns, n), DtoPath(ns, n)}

\* C23: when a fetched line has no path label or a path of another shape,
\* UsedDashboards returns an error and no usage record, whatever the other
\* lines are.
C23_BadPathFailsAll ==
    (Tallied /\ \E j \in Lines : NoPath(j) \/ OtherShape(j)) =>
       usage.err # Nil /\ usage.result = <<>>

\* A line of another shape comes last, after two lines that count.
C23_Witness ==
    /\ Tallied
    /\ Len(FetchedLines) = 3
    /\ OtherShape(3)
    /\ ~NoPath(1) /\ ~OtherShape(1) /\ ~IgnoredLine(1)
    /\ ~NoPath(2) /\ ~OtherShape(2) /\ ~IgnoredLine(2)
    /\ usage.err = "extracting variables from path"

\* --------------------------------------------------- claims on the listing
Listed == pc = "listed" /\ lastErr = Nil

\* C24: AllDashboards returns the dashboards of the pages it received, in
\* the order received; its first request carries no token, every later one
\* the non-empty token of the page before, and the last page is the first
\* with an empty token; the pages received are the listing of the namespace,
\* each page once, so there are as many requests as pages.
C24_PagesConcatenated ==
    Listed =>
       /\ Len(calls) >= 1
       /\ all = Flatten([k \in 1..Len(calls) |-> calls[k].page.dashboards])
       /\ calls[1].token = 0
       /\ \A k \in 1..(Len(calls) - 1) :
             calls[k].page.continue # 0 /\ calls[k + 1].token = calls[k].page.continue
       /\ calls[Len(calls)].page.continue = 0
       /\ all = ListingOf(Namespace)

\* Three dashboards arrive in a page of two and a page of one.
C24_Witness ==
    /\ Listed
    /\ Len(calls) = 2
    /\ Len(calls[1].page.dashboards) = 2
    /\ Len(calls[2].page.dashboards) = 1
    /\ calls[2].token # 0

\* ---------------------------------------------------- claims on the backup
\* The requests of the n-th call of BackUpDashboard.
RequestsOf(n) ==
    SubSeq(calls, report[n].first,
           IF n < Len(report) THEN report[n + 1].first - 1 ELSE Len(calls))

Writes(requests) == SelectSeq(requests, LAMBDA q : q.op \in {"create", "update"})

\* C25: a call of Backup that succeeds has sent exactly one write: a create
\* that carries no revision marker when the file was not there, an update
\* that carries the revision marker the file had when it was there; and a
\* call whose existence check is answered "not found" goes on to the create
\* and does not fail with the error of the check.
C25_OneWritePerBackup ==
    [][\A n \in 1..Len(report') :
          n > Len(report) =>
             LET requests == SubSeq(calls', report'[n].first, Len(calls'))
                 path == report'[n].path
             IN /\ report'[n].err = Nil =>
                      /\ Len(Writes(requests)) = 1
                      /\ Len(requests) = 2
                      /\ requests[1].op = "get" /\ requests[1].path = path
                      /\ requests[2].path = path
                      /\ IF archive[path].sha = 0
                         THEN requests[2].op = "create" /\ "sha" \notin DOMAIN requests[2]
                         ELSE requests[2].op = "update" /\ requests[2].sha = archive[path].sha
                /\ requests[1].status = 404 =>
                      /\ report'[n].err # "checking if file exists"
                      /\ Len(requests) = 2 /\ requests[2].op = "create"]_vars

\* A file is created by one call and updated by the next.
C25_Witness ==
    /\ Len(report) = 2
    /\ report[1].err = Nil /\ report[2].err = Nil
    /\ report[1].path = report[2].path
    /\ Len(calls) = 4
    /\ calls[2].op = "create"
    /\ calls[4].op = "update" /\ calls[4].sha = 1

\* Calls n and n + 1 back up the same definition of the same dashboard, the
\* file is not there before call n, and no request fails for a reason of its own.
BackedUpTwice(n) ==
    /\ n + 1 <= Len(report)
    /\ report[n].path = report[n + 1].path
    /\ report[n].content = report[n + 1].content
    /\ report[n].fault = "none" /\ report[n + 1].fault = "none"
    /\ calls[report[n].first].status = 404

\* C26: when Backup runs twice for one (namespace, name) with the same
\* definition, the first call creates the file, the second updates it with
\* the revision marker the first write produced, and both calls succeed.
C26_CreateThenUpdate ==
    \A n \in 1..Len(report) :
       BackedUpTwice(n) =>
          /\ report[n].err = Nil /\ report[n + 1].err = Nil
          /\ Len(RequestsOf(n)) = 2 /\ Len(RequestsOf(n + 1)) = 2
          /\ RequestsOf(n)[2].op = "create" /\ RequestsOf(n)[2].status = 201
          /\ RequestsOf(n + 1)[2].op = "update" /\ RequestsOf(n + 1)[2].status = 200
          /\ RequestsOf(n + 1)[2].sha = RequestsOf(n)[2].answer
          /\ RequestsOf(n)[2].answer # 0

C26_Witness ==
    /\ BackedUpTwice(1)
    /\ report[1].path = BackupPath(OtherNamespace, "d1")
    /\ archive[BackupPath(OtherNamespace, "d1")].sha = 2
    /\ archive[BackupPath(Namespace, "d1")].sha = 1

\* ------------------------------------------------ claims on the end of a run
\* The last line of the report is the line of the final counts.
FinalLine == report # <<>> /\ report[Len(report)].outcome = "finished"

\* C27 as stated: a run that has ended, completed or aborted, has logged the
\* final counts of deleted dashboards, of all dashboards and of candidates.
C27_Original ==
    RunEnded =>
       /\ FinalLine
       /\ {"deleted_count", "total_count", "candidate_count"} \subseteq DOMAIN report[Len(report)]

\* C27, amended: a run that completes logs, as the last line before it ends,
\* the number and the keys of the dashboards it deleted, and logs this line
\* once; a run that aborts with an error logs no final counts.
C27_FinalCountOnCompletion ==
    /\ (RunEnded /\ lastErr = Nil) =>
          /\ FinalLine
          /\ report[Len(report)].deleted_count = Len(deleted)
          /\ report[Len(report)].deleted_dashboards = deleted
          /\ \A k \in 1..(Len(report) - 1) : report[k].outcome # "finished"
    /\ (RunEnded /\ lastErr # Nil) =>
          \A k \in 1..Len(report) : report[k].outcome # "finished"
    /\ ~RunEnded => \A k \in 1..Len(report) : report[k].outcome # "finished"

\* A run completes after it deleted one dashboard and skipped another.
C27_Witness ==
    /\ RunEnded
    /\ lastErr = Nil
    /\ Len(all) = 2
    /\ FinalLine
    /\ report[Len(report)].deleted_count = 1

\* ----------------------------------------------- claims on the order of a run
\* The position of a dashboard in the listing of this run.
Position(key) == CHOOSE k \in 1..Len(all) : Key(all[k]) = key

\* C29: the calls of a run come in listing order, one dashboard at a time: an
\* answered call is never followed by a call for an earlier position, while a
\* call for position i is in flight every answered call is for a position up
\* to i, and when the loop stands at position i every answered call is for a
\* position before i; the deleted dashboards are in listing order too.
C29_ListingOrder ==
    /\ \A a, b \in 1..Len(calls) :
          a < b => Position(calls[a].key) <= Position(calls[b].key)
    /\ (BackupInFlight \/ pc = "delete") =>
          \A a \in 1..Len(calls) : Position(calls[a].key) <= i
    /\ pc = "loop" => \A a \in 1..Len(calls) : Position(calls[a].key) < i
    /\ \A a, b \in 1..Len(deleted) : a < b => Position(deleted[a]) < Position(deleted[b])

\* The second dashboard of the listing is being backed up after the three
\* calls for the first were answered.
C29_Witness ==
    /\ pc = "backup_update"
    /\ i = 2
    /\ Len(calls) = 4
    /\ Position(calls[3].key) = 1
    /\ Position(calls[4].key) = 2

\* ------------------------------------------------- claims on cancellation
RunInFlight == pc \notin {"start", "idle", "stopped"}

\* C30: once the context is cancelled Start eventually returns; it returns
\* only from its select between two runs, so a run in flight when the context
\* is cancelled goes on until prune has returned, with or without error.
C30_CancelStopsBetweenRuns ==
    /\ cancelled ~> pc = "stopped"
    /\ (cancelled /\ RunInFlight) ~> (RunEnded /\ runs >= 1)
    /\ [][pc' = "stopped" => (pc \in {"idle", "stopped"} /\ cancelled)]_vars
    /\ [][(cancelled /\ RunInFlight) => pc' # "stopped"]_vars

\* Start has returned after a run that deleted one dashboard and failed on the next.
C30_Witness ==
    /\ pc = "stopped"
    /\ cancelled
    /\ runs = 1
    /\ Len(deleted) = 1
    /\ lastErr = "unexpected status code"

\* --------------------------------------------- claims on several namespaces
\* The keys a pruner has sent a backup or a DELETE request for in its run.
Processed(ns) == {calls[ns][k].key : k \in 1..Len(calls[ns])}

\* The pruner of ns has a request for dashboard d in flight at position pos.
InFlight(ns, pos, d) ==
    /\ pc[ns] = pos
    /\ i[ns] \in 1..Len(all[ns])
    /\ Key(all[ns][i[ns]]) = Key(d)

\* C28: there is one pruner for each namespace; whatever the interleaving
\* of their runs, a pruner lists, backs up and deletes dashboards of its own
\* namespace only, no dashboard is processed by two pruners, a dashboard
\* leaves the service only by the DELETE request of the pruner of its
\* namespace and a backup file is written only by the backup of that pruner.
C28_NamespacesNeverMixed ==
    /\ [](\A ns \in FleetNamespaces :
            /\ \A k \in 1..Len(all[ns]) : all[ns][k].Namespace = ns
            /\ \A key \in Processed(ns) : key.namespace = ns
            /\ \A k \in 1..Len(deleted[ns]) : deleted[ns][k].namespace = ns)
    /\ [](\A a, b \in FleetNamespaces : a # b => Processed(a) \cap Processed(b) = {})
    /\ [][\A d \in Range(grafana) \ Range(grafana') : InFlight(d.Namespace, "delete", d)]_vars
    /\ [][\A d \in Range(FleetDashboards) :
            archive'[BackupPath(d.Namespace, d.Name)] # archive[BackupPath(d.Namespace, d.Name)]
               => InFlight(d.Namespace, "backup", d)]_vars

\* Both pruners are in the middle of a run, each has deleted the d2 of its
\* namespace, and the d1 of both namespaces is still there.
C28_Witness ==
    /\ \A ns \in FleetNamespaces :
          /\ pc[ns] = "loop"
          /\ deleted[ns] = <<[name |-> "d2", namespace |-> ns]>>
    /\ Len(grafana) = 2

\* ------------------------------------------------- claims on a failed delete
\* The k-th call is a DELETE answered 200 with a body status other than "Success".
BodyFailure(k) ==
    /\ calls[k].op = "delete"
    /\ "status" \in DOMAIN calls[k]
    /\ calls[k].code = 200
    /\ calls[k].status # "Success"

\* C31: a DELETE answered 200 whose body status is not the literal
\* "Success" is a failed delete: the dashboard is not recorded as deleted,
\* the run has ended with the error of the body, and no call follows.
C31_BodyFailureAborts ==
    \A k \in 1..Len(calls) :
       BodyFailure(k) =>
          /\ k = Len(calls)
          /\ ~calls[k].ok
          /\ RunEnded
          /\ lastErr = "response body claims failure"
          /\ calls[k].key \notin Range(deleted)
          /\ ~FinalLine

\* The body says "success" in lower case for the second dashboard, after the
\* first was deleted.
C31_Witness ==
    /\ Len(calls) = 6
    /\ BodyFailure(6)
    /\ calls[6].status = "success"
    /\ Len(deleted) = 1
    /\ RunEnded

\* ------------------------------------------ claims on reading several streams
\* How often a log occurs in a sequence of logs.
Occurrences(log, logs) == Cardinality({k \in 1..Len(logs) : logs[k] = log})

\* The entries of the store belong to several streams whose timestamps
\* interleave: some entry lies between two entries of another stream.
Interleaved ==
    \E a, b, c \in 1..Len(store) :
       /\ a < b /\ b < c
       /\ store[a].stream = store[c].stream
       /\ store[a].stream # store[b].stream

\* C32: with entries of several streams, interleaved and pairwise distinct in
\* time, and limit smaller than their number, QueryRange returns every entry
\* of the range exactly once, whichever order the store lists the streams in.
C32_EveryEntryOnce ==
    (NoRequestFailed /\ DistinctTimestamps /\ Interleaved /\ limit < Len(store)) =>
       /\ Len(answer.logs) = Len(store)
       /\ \A k \in 1..Len(store) : Occurrences(StoredLogs[k], answer.logs) = 1

\* How many entries of the store carry timestamp t.
SharedBy(t) == Cardinality({k \in 1..Len(store) : store[k].ts = t})

\* C33: when no timestamp of the range is shared by more than limit entries,
\* every entry of the range appears in the result of QueryRange.
C33_NothingLost ==
    (NoRequestFailed /\ \A t \in Timestamps : SharedBy(t) <= limit) =>
       \A k \in 1..Len(store) : Occurrences(StoredLogs[k], answer.logs) >= 1

\* C34: for a limit of at least 1 and a store of finitely many entries,
\* QueryRange returns: every request after the first starts strictly later
\* than the one before it, and QueryRange sends at most one request more than
\* there are entries in the range.
C34_QueryRangeTerminates ==
    /\ rpc = "ready" => limit >= 1
    /\ Queried =>
          /\ answer.plan = NoFault => answer.err = Nil
          /\ answer.requests >= 1
          /\ answer.requests <= Len(store) + 1
          /\ Len(answer.starts) = answer.requests
          /\ answer.starts[1] = RangeStart
          /\ \A p \in 1..(answer.requests - 1) : answer.starts[p] < answer.starts[p + 1]

\* Three entries are read one per page, in four requests.
C34_Witness ==
    /\ NoRequestFailed
    /\ Len(store) = MaxEntries
    /\ limit = 1
    /\ answer.requests = MaxEntries + 1
    /\ \E a, b \in 1..Len(store) : store[a].stream # store[b].stream

\* ------------------------------------------------ claims on the key of usage
\* A usage record of the run carries the name and the namespace of d.
HasRecord(d) == \E r \in Range(used) : r.name = d.Name /\ r.namespace = d.Namespace

\* A usage record of the run carries the name of d and another namespace.
HasNamesake(d) == \E r \in Range(used) : r.name = d.Name /\ r.namespace # d.Namespace

\* C35: the loop treats a dashboard as used exactly when a usage record has
\* both its name and its namespace; a dashboard with views only of a dashboard
\* of the same name in another namespace is handled as unused, and a live run
\* goes on to delete it unless it is provisioned or skip-tagged.
C35_UsedNeedsNameAndNamespace ==
    \A k \in 1..Len(report) :
       report[k].outcome # "finished" =>
          /\ report[k].name = all[k].Name
          /\ (report[k].outcome = "used") <=> HasRecord(all[k])
          /\ (HasNamesake(all[k]) /\ ~HasRecord(all[k])) =>
                /\ report[k].outcome # "used"
                /\ (all[k].ManagedBy = <<>> /\ ~SkipTagged(all[k]) /\ ~dry) =>
                      (report[k].outcome = "delete" /\ Key(all[k]) \in TouchedKeys)

\* d1 is deleted in a run whose usage data hold views of the d1 of the other
\* namespace only.
C35_Witness ==
    /\ RunSucceeded
    /\ ~dry
    /\ Len(all) >= 1
    /\ HasNamesake(all[1])
    /\ ~HasRecord(all[1])
    /\ Key(all[1]) \in Range(deleted)
    /\ all[1] \notin Range(grafana)

\* ------------------------------------------------ claims on the run schedule
\* C36: the runs of a pruner never overlap: a run starts only when no run is
\* in flight, from Start before the first run and from a tick of the timer
\* while the pruner is idle afterwards, and the run in flight is the one
\* started last.
C36_RunsNeverOverlap ==
    /\ [](RunInFlight => runs >= 1)
    /\ [][runs' # runs =>
            /\ ~RunInFlight
            /\ pc = IF runs = 0 THEN "start" ELSE "idle"
            /\ runs' = runs + 1
            /\ pc' = "list"
            /\ calls' = <<>> /\ deleted' = <<>> /\ report' = <<>>]_vars
    /\ [][(RunInFlight /\ RunInFlight') => runs' = runs]_vars

\* The second run of the pruner is deleting a dashboard.
C36_Witness ==
    /\ runs = 2
    /\ pc = "delete"
    /\ lastErr = Nil

\* ------------------------------------------------- claims on the windows
\* The length of the period UsedDashboards reads.
Lookback == RangeEnd - RangeStart

\* C37: UsedDashboards calls QueryRange once per window; the windows are
\* consecutive and do not overlap, the first starts at now - lookback, each
\* has length chunkSize except a possibly shorter last one that ends at now;
\* when every call succeeds there are ceil(lookback / chunkSize) calls, one
\* call when chunkSize is at least the lookback, and a failed call is the
\* last one made.
C37_OneCallPerWindow ==
    Tallied =>
       LET n == Len(usage.ranges)
           c == usage.chunkSize
       IN /\ n >= 1
          /\ usage.ranges[1].start = RangeStart
          /\ \A p \in 1..n :
                /\ usage.ranges[p].start < usage.ranges[p].end
                /\ usage.ranges[p].end <= RangeEnd
                /\ usage.ranges[p].end - usage.ranges[p].start <= c
          /\ \A p \in 1..(n - 1) :
                /\ usage.ranges[p + 1].start = usage.ranges[p].end
                /\ usage.ranges[p].end - usage.ranges[p].start = c
          /\ n <= Ceil(Lookback, c)
          /\ Fetched =>
                /\ usage.ranges[n].end = RangeEnd
                /\ n = Ceil(Lookback, c)
                /\ Len(usage.windows) = n
                /\ c >= Lookback => (n = 1 /\ usage.ranges[1].end = RangeEnd)
                /\ \A p \in 1..n :
                      \A k \in 1..Len(usage.windows[p]) :
                         /\ usage.windows[p][k].timestamp >= usage.ranges[p].start
                         /\ usage.windows[p][k].timestamp < usage.ranges[p].end

\* A period of three time units is read in windows of two: the second window
\* is one unit long.
C37_Witness ==
    /\ Fetched
    /\ usage.chunkSize = 2
    /\ usage.ranges = <<[start |-> RangeStart, end |-> RangeStart + 2],
                        [start |-> RangeStart + 2, end |-> RangeEnd]>>
    /\ Len(usage.windows[2]) >= 1

\* ---------------------------------------------- claims on the parsed paths
\* Every fetched line carries the API path or the UI path of a dashboard.
WellFormedLines ==
    \A j \in Lines : ~NoPath(j) /\ ~OtherShape(j)

\* C38: for every namespace and every dashboard name the API path of the
\* dashboard and the same path with /dto appended both parse to the key
\* (namespace, name), so that lines which all carry such paths never make
\* UsedDashboards fail on a path.
C38_BothPathsParse ==
    Tallied =>
       /\ \A j \in {l \in Lines : ~NoPath(l)} : \A ns \in Namespaces, n \in Names :
             FetchedLines[j].stream.path \in {ApiPath(ns, n), DtoPath(ns, n)} =>
                extractPathVariables(FetchedLines[j].stream.path)
                   = [err |-> Nil, key |-> [name |-> n, namespace |-> ns]]
       /\ WellFormedLines => usage.err # "extracting variables from path"

\* ------------------------------------------------- claims on repeated runs
\* The usage records UsedDashboards can return.
UsageResults == {o.res.result : o \in UNION {UsageOutcomes[t] : t \in LowerThresholdChoices}}

\* Run r was live, has completed without error and had the usage records u.
CompletedWith(r, u) == runs = r /\ RunSucceeded /\ ~dry /\ used = u

\* Run r has received the usage records u.
RunsWith(r, u) == runs = r /\ pc \notin {"list", "usage"} /\ lastErr = Nil /\ used = u

\* The run has found nothing to delete and has called neither the backup
\* repository nor DELETE.
NothingToDo ==
    /\ calls = <<>>
    /\ deleted = <<>>
    /\ ~BackupInFlight
    /\ pc # "delete"
    /\ \A k \in 1..Len(report) : report[k].outcome \notin {"delete", "dry_run"}

\* C39: pruning is idempotent: after a live run that completed without
\* error, the next run, when it gets the same usage records, finds no
\* dashboard to delete and makes no backup and no DELETE call.
C39_Idempotent ==
    \A r \in 1..(MaxRuns - 1) : \A u \in UsageResults :
       [](CompletedWith(r, u) => [](RunsWith(r + 1, u) => NothingToDo))

\* The second run completes over the usage records of the first, which
\* deleted a dashboard and skipped a used one.
C39_Witness ==
    /\ runs = 2
    /\ RunSucceeded
    /\ ~dry
    /\ used # <<>>
    /\ \E n \in DOMAIN archive : archive[n] # Absent
    /\ \E k \in 1..Len(report) : report[k].outcome = "used"
    /\ NothingToDo

\* The keys of the dashboards the pruned namespace may hold.
PrunedKeys == {[name |-> n, namespace |-> Namespace] : n \in Range(DashNames)}

\* Run r was aborted by a failed DELETE for d that followed a successful backup of d.
DeleteFailedAfterBackup(r, d) ==
    /\ runs = r
    /\ RunEnded
    /\ DeleteFailed
    /\ Len(calls) >= 2
    /\ calls[Len(calls)].op = "delete" /\ calls[Len(calls)].key = d /\ ~calls[Len(calls)].ok
    /\ IsWrite(calls[Len(calls) - 1])
    /\ calls[Len(calls) - 1].key = d /\ calls[Len(calls) - 1].ok

\* Run r has its listing and its usage records: d is listed and not used.
ListedUnused(r, d) ==
    /\ runs = r
    /\ pc \notin {"list", "usage"}
    /\ d \in {Key(all[k]) : k \in 1..Len(all)}
    /\ d \notin UsedKeys
    /\ \/ pc # "idle"
       \/ lastErr \notin {"fetching all Grafana dashboards", "querying loki"}

\* The calls of the run for d, in the order made.
CallsFor(d) == SelectSeq(calls, LAMBDA c : c.key = d)

\* The run handles d by the update path: an existence check that finds the
\* file, an update that sends the SHA of the stored file, then the DELETE;
\* it stops short of the DELETE only when a call before it fails.
UpdateThenDelete(d) ==
    LET cs == CallsFor(d)
        at == Position(d)
        inFlight == i = at /\ (BackupInFlight \/ pc = "delete")
        past == i > at \/ (i = at /\ RunEnded)
    IN /\ (i = at /\ pc = "loop") => (Decision.outcome = "delete" /\ cs = <<>>)
       /\ (inFlight \/ past) => Len(cs) >= (IF pc = "backup_get" /\ inFlight THEN 0 ELSE 1)
       /\ Len(cs) <= 3
       /\ Len(cs) >= 1 => cs[1].op = "get"
       /\ Len(cs) >= 2 =>
             /\ cs[1].ok
             /\ cs[2].op = "update"
             /\ cs[2].sha >= 1
             /\ archive[d.name].sha = cs[2].sha + (IF cs[2].ok THEN 1 ELSE 0)
       /\ Len(cs) = 3 => (cs[2].ok /\ cs[3].op = "delete")
       /\ (Len(cs) = 1 /\ cs[1].ok) => (inFlight /\ pc = "backup_update")
       /\ (Len(cs) = 2 /\ cs[2].ok) => (inFlight /\ pc = "delete")
       /\ (past /\ lastErr = Nil) => (Len(cs) = 3 /\ cs[3].ok /\ d \in Range(deleted))

\* C40: when the backup of a dashboard succeeded and its DELETE failed, the
\* run of the next tick, finding the dashboard still listed and still unused,
\* decides to delete it again, checks the backup file, finds it, updates it
\* with the SHA of the stored file and then sends the DELETE again; the
\* pruner never tries to create the file a second time.
C40_RetryThroughUpdate ==
    \A r \in 1..(MaxRuns - 1) : \A d \in PrunedKeys :
       [](DeleteFailedAfterBackup(r, d) => [](ListedUnused(r + 1, d) => UpdateThenDelete(d)))

\* The second run deletes d1 after it has updated the backup the first run
\* created before its DELETE failed.
C40_Witness ==
    /\ runs = 2
    /\ RunSucceeded
    /\ Len(calls) >= 3
    /\ calls[2].op = "update" /\ calls[2].ok /\ calls[2].sha = 1
    /\ calls[3].op = "delete" /\ calls[3].ok
    /\ calls[3].key = calls[2].key
    /\ archive[calls[2].key.name].sha = 2

====
